---------------------------- MODULE Spec2Model ----------------------------
(***************************************************************************)
(* City resolution of transport-order documents                            *)
(* (src/extractors/city_extractor.py, class CityExtractor).                *)
(*                                                                         *)
(* A Python str is a sequence of characters, each character a one-letter   *)
(* TLA+ string; a document is the sequence of its lines (str.splitlines).  *)
(* The regular expressions of the extractor are hand-compiled into         *)
(* matchers over such sequences.  The alphabet of the documents is ASCII   *)
(* with the blank as the only white-space character inside a line.         *)
(***************************************************************************)
EXTENDS Naturals, Sequences, FiniteSets, TLC

(***************************************************************************)
(* Characters and character classes                                        *)
(***************************************************************************)
Digits == {"0", "1", "2", "3", "4", "5", "6", "7", "8", "9"}

UpperSeq == << "A", "B", "C", "D", "E", "F", "G", "H", "I", "J", "K", "L", "M",
               "N", "O", "P", "Q", "R", "S", "T", "U", "V", "W", "X", "Y", "Z" >>

LowerSeq == << "a", "b", "c", "d", "e", "f", "g", "h", "i", "j", "k", "l", "m",
               "n", "o", "p", "q", "r", "s", "t", "u", "v", "w", "x", "y", "z" >>

Range(seq) == {seq[k] : k \in DOMAIN seq}

UpperLetters == Range(UpperSeq)

LowerLetters == Range(LowerSeq)

Letters == UpperLetters \cup LowerLetters

\* the letters of seq from, each with the letter of seq to at the same place
\* (f @@ << >> is f as an explicit table)
Translation(from, to) ==
    [c \in Range(from) |-> to[CHOOSE k \in DOMAIN from : from[k] = c]] @@ << >>

ToLower == Translation(UpperSeq, LowerSeq)

ToUpper == Translation(LowerSeq, UpperSeq)

Translate(table, c) == IF c \in DOMAIN table THEN table[c] ELSE c

\* str.lower() and str.upper() of one character
lower(c) == Translate(ToLower, c)

upper(c) == Translate(ToUpper, c)

\* \w of the re module
WordChars == Letters \cup Digits \cup {"_"}

\* \s of the re module, within one line of the alphabet
SpaceChars == {" "}

\* the class [A-Za-z .\-'] shared by the city captures of all five patterns
CityChars == Letters \cup {" ", ".", "-", "'"}

\* the character read past either end of a string: in no class
EOS == ""

At(s, k) == IF k \in 1..Len(s) THEN s[k] ELSE EOS

LowerStr(s) == [k \in 1..Len(s) |-> lower(s[k])]

\* \b between positions k-1 and k: one of the two characters is a word character
Boundary(s, k) == Cardinality({j \in {k - 1, k} : At(s, j) \in WordChars}) = 1

\* last index of the longest run of characters of class C that starts at k
\* (k - 1 when s[k] is not in C)
RECURSIVE RunEnd(_, _, _)
RunEnd(s, k, C) == IF At(s, k) \in C THEN RunEnd(s, k + 1, C) ELSE k - 1

\* the digits \d{n} stand at positions k .. k+n-1
DigitsAt(s, k, n) == \A d \in 0..(n - 1) : At(s, k + d) \in Digits

\* tok in s (substring test) and the index of the first occurrence
OccursAt(s, tok, k) == \A d \in 1..Len(tok) : At(s, k + d - 1) = tok[d]

Occurs(s, tok) == \E k \in 1..(Len(s) + 1 - Len(tok)) : OccursAt(s, tok, k)

FirstOcc(s, tok) == CHOOSE k \in 1..(Len(s) + 1 - Len(tok)) :
                        /\ OccursAt(s, tok, k)
                        /\ \A j \in 1..(k - 1) : ~OccursAt(s, tok, j)

\* str.strip()
RECURSIVE LStrip(_)
LStrip(s) == IF s # << >> /\ Head(s) \in SpaceChars THEN LStrip(Tail(s)) ELSE s

RECURSIVE RStrip(_)
RStrip(s) == IF s # << >> /\ s[Len(s)] \in SpaceChars
             THEN RStrip(SubSeq(s, 1, Len(s) - 1)) ELSE s

Strip(s) == RStrip(LStrip(s))

\* the absent value None, distinct from every str
None == << "None" >>

\* truth value of an Optional[str]: None and "" are false
Truthy(x) == x # None /\ x # << >>

(***************************************************************************)
(* The precompiled patterns of CityExtractor.__init__.  A match is the     *)
(* pair <<first, last>> of the indices of group(1); NoMatch otherwise.     *)
(* The optional group (?:\s+b\.\s+[...]+)? of the Polish patterns only     *)
(* consumes characters of the class that precedes it, so the greedy class  *)
(* has already taken them: the capture is the longest run of the class.    *)
(***************************************************************************)
NoMatch == << >>

\* \s+([A-Za-z .\-']+) from position p: \s+ is greedy and gives one blank
\* back to the capture when no character of the class follows the blanks
CityTail(s, p) ==
    LET e == RunEnd(s, p, SpaceChars)
    IN  IF e < p THEN NoMatch
        ELSE IF At(s, e + 1) \in CityChars THEN << e + 1, RunEnd(s, e + 1, CityChars) >>
        ELSE IF e > p THEN << e, e >>
        ELSE NoMatch

\* \d{2}-\d{3} at position j, then the city
PlCodeCity(s, j) ==
    IF DigitsAt(s, j, 2) /\ At(s, j + 2) = "-" /\ DigitsAt(s, j + 3, 3)
    THEN CityTail(s, j + 6) ELSE NoMatch

\* \d{4,5} at position j, then the city
DeCodeCity(s, j) ==
    IF DigitsAt(s, j, 4)
    THEN CityTail(s, IF At(s, j + 4) \in Digits THEN j + 5 ELSE j + 4)
    ELSE NoMatch

\* _pattern_pl_zip_city, re.IGNORECASE, anchored at i
pattern_pl_zip_city(s, i) ==
    IF Boundary(s, i) /\ lower(At(s, i)) = "p" /\ lower(At(s, i + 1)) = "l"
    THEN PlCodeCity(s, IF At(s, i + 2) \in SpaceChars THEN i + 3 ELSE i + 2)
    ELSE NoMatch

\* _pattern_de_zip_city, re.IGNORECASE, anchored at i
pattern_de_zip_city(s, i) ==
    IF Boundary(s, i) /\ lower(At(s, i)) = "d"
    THEN LET a == IF At(s, i + 1) \in SpaceChars THEN i + 2 ELSE i + 1
             b == IF At(s, a) = "-" THEN a + 1 ELSE a
         IN  DeCodeCity(s, b)
    ELSE NoMatch

\* _pattern_pl_bare_zip_city anchored at i
pattern_pl_bare_zip_city(s, i) ==
    IF Boundary(s, i) THEN PlCodeCity(s, i) ELSE NoMatch

\* _pattern_de_bare_zip_city anchored at i
pattern_de_bare_zip_city(s, i) ==
    IF Boundary(s, i) /\ DigitsAt(s, i, 5) THEN CityTail(s, i + 5) ELSE NoMatch

\* _pattern_city_only anchored at i: an upper-case letter, at least two more
\* characters of the class, as many as end on a word boundary
pattern_city_only(s, i) ==
    IF Boundary(s, i) /\ At(s, i) \in UpperLetters
    THEN LET Longest(ends) == IF ends = {} THEN NoMatch
                              ELSE << i, CHOOSE k \in ends : \A j \in ends : j <= k >>
         IN  Longest({k \in (i + 2)..RunEnd(s, i + 1, CityChars) : Boundary(s, k + 1)})
    ELSE NoMatch

\* the zip-anchored patterns, the bare ones ahead of the country-prefixed
ZipPatternsBareFirst ==
    << "pl_bare_zip_city", "de_bare_zip_city", "pl_zip_city", "de_zip_city" >>

\* the zip-anchored patterns in the order every caller tries them
ZipPatterns == << "pl_zip_city", "de_zip_city", "pl_bare_zip_city", "de_bare_zip_city" >>

MatchAt(pat, s, i) ==
    CASE pat = "pl_zip_city"      -> pattern_pl_zip_city(s, i)
      [] pat = "de_zip_city"      -> pattern_de_zip_city(s, i)
      [] pat = "pl_bare_zip_city" -> pattern_pl_bare_zip_city(s, i)
      [] pat = "de_bare_zip_city" -> pattern_de_bare_zip_city(s, i)
      [] pat = "city_only"        -> pattern_city_only(s, i)

\* pattern.search(s): the match at the leftmost position that has one
RECURSIVE SearchFrom(_, _, _)
SearchFrom(pat, s, i) ==
    IF i > Len(s) THEN NoMatch
    ELSE LET OrFurther(m) == IF m # NoMatch THEN m ELSE SearchFrom(pat, s, i + 1)
         IN  OrFurther(MatchAt(pat, s, i))

Search(pat, s) == SearchFrom(pat, s, 1)

\* m.group(1)
Group1(s, m) == SubSeq(s, m[1], m[2])

\* the first zip-anchored pattern, in order, that matches the line
RECURSIVE ZipSearchFrom(_, _)
ZipSearchFrom(s, n) ==
    IF n > Len(ZipPatterns) THEN NoMatch
    ELSE LET OrNextPattern(m) == IF m # NoMatch THEN m ELSE ZipSearchFrom(s, n + 1)
         IN  OrNextPattern(Search(ZipPatterns[n], s))

ZipSearch(s) == ZipSearchFrom(s, 1)

(***************************************************************************)
(* _clean_city: the Normalizer                                             *)
(***************************************************************************)
\* \d{2}-?\d{3,5} at position j: the index of its last digit, 0 if it does
\* not match; the digits are taken greedily, at most five
CodeEnd(s, j) ==
    IF ~DigitsAt(s, j, 2) THEN 0
    ELSE LET k == IF At(s, j + 2) = "-" THEN j + 3 ELSE j + 2
             e == RunEnd(s, k, Digits)
         IN  IF e - k + 1 < 3 THEN 0
             ELSE IF e - k + 1 > 5 THEN k + 4 ELSE e

\* \s?\d{2}-?\d{3,5}\s* at position j: the index of the last character, or 0
PrefixedCodeEnd(s, j) ==
    LET Blanks(c) == IF c = 0 THEN 0 ELSE RunEnd(s, c + 1, SpaceChars)
    IN  Blanks(CodeEnd(s, IF At(s, j) \in SpaceChars THEN j + 1 ELSE j))

\* \b(?:PL|D|D-)\s?\d{2}-?\d{3,5}\s* with re.IGNORECASE anchored at i: the
\* index of the last character of the match, or 0
CountryCodeAt(s, i) ==
    LET \* the alternatives PL, D and D- end before position j
        Prefixes(c) == IF c = "p" /\ lower(At(s, i + 1)) = "l" THEN << i + 2 >>
                       ELSE IF c # "d" THEN << >>
                       ELSE IF At(s, i + 1) = "-" THEN << i + 1, i + 2 >>
                       ELSE << i + 1 >>
        \* the first alternative, in order, that the code follows
        Ends(js) == [n \in 1..Len(js) |-> PrefixedCodeEnd(s, js[n])]
        FirstEnd(es) == IF \A n \in 1..Len(es) : es[n] = 0 THEN 0
                        ELSE es[CHOOSE n \in 1..Len(es) :
                                    es[n] # 0 /\ \A h \in 1..(n - 1) : es[h] = 0]
    IN  IF ~Boundary(s, i) THEN 0 ELSE FirstEnd(Ends(Prefixes(lower(At(s, i)))))

\* \b\d{2}-?\d{3,5}\b anchored at i: the index of the last digit, or 0
BareCodeAt(s, i) ==
    IF ~(Boundary(s, i) /\ DigitsAt(s, i, 2)) THEN 0
    ELSE LET k == IF At(s, i + 2) = "-" THEN i + 3 ELSE i + 2
             e == RunEnd(s, k, Digits)
         IN  IF e - k + 1 >= 3 /\ e - k + 1 <= 5 /\ Boundary(s, e + 1) THEN e ELSE 0

\* re.sub(pattern, "", s): every match, left to right, is removed
RECURSIVE RemoveCountryCodes(_, _)
RemoveCountryCodes(s, i) ==
    IF i > Len(s) THEN << >>
    ELSE LET Skip(e) == IF e # 0 THEN RemoveCountryCodes(s, e + 1)
                        ELSE << s[i] >> \o RemoveCountryCodes(s, i + 1)
         IN  Skip(CountryCodeAt(s, i))

RECURSIVE RemoveBareCodes(_, _)
RemoveBareCodes(s, i) ==
    IF i > Len(s) THEN << >>
    ELSE LET Skip(e) == IF e # 0 THEN RemoveBareCodes(s, e + 1)
                        ELSE << s[i] >> \o RemoveBareCodes(s, i + 1)
         IN  Skip(BareCodeAt(s, i))

\* split_tokens of _clean_city, in the order of the list
split_tokens ==
    << << "n", "a", " ", "z", "l", "e", "c" >>,
       << "a", "u", "f", "t", "r" >>,
       << "a", "u", "f", "t", "r", "a", "g" >>,
       << "a", "t", "t", "n" >> >>

\* s.split(tok, 1)[0]: str.split compares the characters as they are
SplitFirst(s, tok) ==
    IF Occurs(s, tok) THEN SubSeq(s, 1, FirstOcc(s, tok) - 1) ELSE s

RECURSIVE CutTokens(_, _)
CutTokens(s, n) ==
    IF n > Len(split_tokens) THEN s
    ELSE CutTokens(SplitFirst(s, split_tokens[n]), n + 1)

\* re.split(r"[;,|]", s)[0]
Separators == {";", ",", "|"}

CutAtSeparator(s) ==
    LET at == {k \in 1..Len(s) : s[k] \in Separators}
    IN  IF at = {} THEN s
        ELSE SubSeq(s, 1, (CHOOSE k \in at : \A j \in at : k <= j) - 1)

\* re.sub(r"\s+", " ", s).strip()
RECURSIVE CollapseSpaces(_)
CollapseSpaces(s) ==
    IF s = << >> THEN << >>
    ELSE IF Head(s) \in SpaceChars
         THEN << " " >> \o CollapseSpaces(SubSeq(s, RunEnd(s, 1, SpaceChars) + 1, Len(s)))
    ELSE << Head(s) >> \o CollapseSpaces(Tail(s))

NormalizeSpaces(s) == Strip(CollapseSpaces(s))

\* t.split(' '): the parts between single blanks, empty parts included
RECURSIVE SplitBlank(_)
SplitBlank(t) ==
    IF \A k \in 1..Len(t) : t[k] # " " THEN << t >>
    ELSE LET k == CHOOSE j \in 1..Len(t) : t[j] = " " /\ \A h \in 1..(j - 1) : t[h] # " "
         IN  << SubSeq(t, 1, k - 1) >> \o SplitBlank(SubSeq(t, k + 1, Len(t)))

\* str.capitalize()
Capitalize(p) == [k \in 1..Len(p) |-> IF k = 1 THEN upper(p[k]) ELSE lower(p[k])]

\* one part of smart_title: a trailing period is kept
TitlePart(p) ==
    IF p # << >> /\ p[Len(p)] = "."
    THEN Capitalize(SubSeq(p, 1, Len(p) - 1)) \o << "." >>
    ELSE Capitalize(p)

\* " ".join(parts)
RECURSIVE JoinWith(_, _)
JoinWith(sep, parts) ==
    IF parts = << >> THEN << >>
    ELSE IF Len(parts) = 1 THEN parts[1]
    ELSE parts[1] \o sep \o JoinWith(sep, Tail(parts))

smart_title(t) ==
    LET parts == SplitBlank(t)
    IN  JoinWith(<< " " >>, [k \in 1..Len(parts) |-> TitlePart(parts[k])])

_clean_city(raw) ==
    IF raw = << >> THEN << >>
    ELSE smart_title(NormalizeSpaces(CutAtSeparator(CutTokens(
             RemoveBareCodes(RemoveCountryCodes(raw, 1), 1), 1))))

(***************************************************************************)
(* The lines documents are made of                                         *)
(***************************************************************************)
\* the two section headers, two postal-code lines with a city, a postal-code
\* line whose capture is only an annotation marker, a bare capitalized token
\* and a lower-case place name that only a tagger knows
LineVocab ==
    { << "M", "i", "e", "j", "s", "c", "e", " ", "z", "a", "l", "a", "d", "u", "n", "k", "u" >>,
      << "M", "i", "e", "j", "s", "c", "e", " ", "r", "o", "z", "l", "a", "d", "u", "n", "k", "u" >>,
      << "1", "2", "-", "3", "4", "5", " ", "R", "o", "k" >>,
      << "P", "L", "5", "4", "-", "3", "2", "1", " ", "L", "u", "b" >>,
      << "1", "2", "-", "3", "4", "5", " ", "a", "t", "t", "n" >>,
      << "F", "i", "r", "m", "a" >>,
      << "b", "e", "r", "l", "i", "n" >> }

\* the lines of the sections the Pattern Cascade is run on by itself: a blank
\* line, lines of LineVocab, a street line, an overly numeric line with a bare
\* token, and lines on which more than one zip-anchored pattern matches
CascadeVocab ==
    { << >>,
      << "1", "2", "-", "3", "4", "5", " ", "R", "o", "k" >>,
      << "P", "L", "5", "4", "-", "3", "2", "1", " ", "L", "u", "b" >>,
      << "1", "2", "-", "3", "4", "5", " ", "a", "t", "t", "n" >>,
      << "F", "i", "r", "m", "a" >>,
      << "U", "l", ".", " ", "P", "o", "l", "n", "a" >>,
      << "H", "a", "l", "a", " ", "1", "2", "3", "4" >>,
      << "1", "2", "-", "3", "4", "5", " ", "R", "o", "k", " ", "P", "L", "5", "4", "-", "3", "2", "1", " ", "L", "u", "b" >>,
      << "D", "-", "1", "2", "3", "4", "5", " ", "U", "l", "m", " ", "P", "L", "5", "4", "-", "3", "2", "1", " ", "L", "u", "b" >>,
      << "D", "-", "1", "2", "3", "4", "5", " ", "U", "l", "m", " ", "5", "4", "-", "3", "2", "1", " ", "L", "u", "b" >>,
      << "1", "2", "3", "4", "5", " ", "U", "l", "m", " ", "5", "4", "-", "3", "2", "1", " ", "L", "u", "b" >> }

\* the lines of the sections the entity paths are run on by themselves: no
\* pattern of the cascade takes anything from them, and the taggers know a
\* place of either model, a street-like place, a number and an organization
EntityVocab ==
    { << "b", "e", "r", "l", "i", "n" >>,
      << "H", "a", "m", "m" >>,
      << "3", "4", "5" >>,
      << "f", "r", "i", "e", "d", "r", "i", "c", "h", "s", "h", "a", "f", "e", "n" >>,
      << "w", "o", "l", "f", "r", "a", "t", "s", "h", "a", "u", "s", "e", "n" >>,
      << "s", "p", "e", "d", "i", "t", "i", "o", "n" >> }

AllLines == LineVocab \cup CascadeVocab \cup EntityVocab

(***************************************************************************)
(* Literals of the extractor.  The letters outside ASCII (l-stroke,        *)
(* o-acute, sharp s) are the atoms "l/", "o'" and "sz"; no document of the *)
(* alphabet contains them.                                                 *)
(***************************************************************************)
\* _street_tokens
_street_tokens ==
    { << "s", "t", "r", "." >>,
       << "s", "t", "r", "a", "sz", "e" >>,
       << "s", "t", "r", "a", "s", "s", "e" >>,
       << "a", "l", "l", "e", "e" >>,
       << "u", "l", "." >>,
       << "u", "l", "i", "c", "a" >>,
       << "p", "l", "a", "t", "z" >>,
       << "r", "i", "n", "g" >>,
       << "w", "e", "g" >>,
       << "g", "a", "s", "s", "e" >>,
       << "a", "m" >>,
       << "a", "n", " ", "d", "e", "r" >> }

\* the header_keywords and two_line_tail arguments of the two sections
LoadingHeaders ==
    << << "M", "i", "e", "j", "s", "c", "e", " ", "z", "a", "l/", "a", "d", "u", "n", "k", "u" >>,
       << "M", "i", "e", "j", "s", "c", "e", " ", "z", "a", "l", "a", "d", "u", "n", "k", "u" >> >>

LoadingTail ==
    << << "z", "a", "l/", "a", "d", "u", "n", "k", "u" >>,
       << "z", "a", "l", "a", "d", "u", "n", "k", "u" >> >>

UnloadingHeaders ==
    << << "M", "i", "e", "j", "s", "c", "e", " ", "r", "o", "z", "l/", "a", "d", "u", "n", "k", "u" >>,
       << "M", "i", "e", "j", "s", "c", "e", " ", "r", "o", "z", "l", "a", "d", "u", "n", "k", "u" >> >>

UnloadingTail ==
    << << "r", "o", "z", "l/", "a", "d", "u", "n", "k", "u" >>,
       << "r", "o", "z", "l", "a", "d", "u", "n", "k", "u" >> >>

\* tokens of _looks_like_header
HeaderTokens ==
    << << "M", "i", "e", "j", "s", "c", "e", " ", "z", "a", "l/", "a", "d", "u", "n", "k", "u" >>,
       << "M", "i", "e", "j", "s", "c", "e", " ", "z", "a", "l", "a", "d", "u", "n", "k", "u" >>,
       << "M", "i", "e", "j", "s", "c", "e", " ", "r", "o", "z", "l/", "a", "d", "u", "n", "k", "u" >>,
       << "M", "i", "e", "j", "s", "c", "e", " ", "r", "o", "z", "l", "a", "d", "u", "n", "k", "u" >>,
       << "Z", "l", "e", "c", "e", "n", "i", "e" >>,
       << "S", "a", "m", "o", "c", "h", "o'", "d" >>,
       << "S", "a", "m", "o", "c", "h", "o", "d" >>,
       << "V", "e", "r", "e", "i", "n", "b", "a", "r", "t", "e", "r", " ", "F", "r", "a", "c", "h", "t", "p", "r", "e", "i", "s" >>,
       << "T", "e", "r", "m", "i", "n", " ", "r", "o", "z", "l", "a", "d", "u", "n", "k", "u" >> >>

MiejsceWord == << "m", "i", "e", "j", "s", "c", "e" >>

\* config.CITY_SECTION_MAX_LINES
CITY_SECTION_MAX_LINES == 30

\* re.compile("|".join(re.escape(t) ...), re.IGNORECASE).search(line)
SearchAnyCI(tokens, line) ==
    LET low == LowerStr(line)
    IN  \E n \in 1..Len(tokens) : Occurs(low, LowerStr(tokens[n]))

\* the street test without line.lower()
LooksLikeStreetCaseSensitive(line) == \E tok \in _street_tokens : Occurs(line, tok)

\* any(tok in line.lower() for tok in self._street_tokens)
_looks_like_street(line) ==
    LET low == LowerStr(line)
    IN  \E tok \in _street_tokens : Occurs(low, tok)

_looks_like_header(line) == SearchAnyCI(HeaderTokens, line)

\* re.search(r"\bMiejsce\b", line, re.IGNORECASE)
HasMiejsce(line) ==
    LET low == LowerStr(line)
    IN  \E k \in 1..(Len(line) + 1 - Len(MiejsceWord)) :
            /\ OccursAt(low, MiejsceWord, k)
            /\ Boundary(line, k)
            /\ Boundary(line, k + Len(MiejsceWord))

(***************************************************************************)
(* _extract_section: the Section Locator.  A section, the str              *)
(* "\n".join(block_lines).strip(), is kept as the sequence of its lines    *)
(* (section.splitlines()); the empty str is the empty sequence.            *)
(***************************************************************************)
IsBlank(line) == \A k \in 1..Len(line) : line[k] \in SpaceChars

\* "\n".join(lines).strip() as lines: blank lines at either end go, the first
\* line loses its leading and the last its trailing white space
RECURSIVE DropBlankHead(_)
DropBlankHead(ls) == IF ls # << >> /\ IsBlank(Head(ls)) THEN DropBlankHead(Tail(ls)) ELSE ls

RECURSIVE DropBlankTail(_)
DropBlankTail(ls) ==
    IF ls # << >> /\ IsBlank(ls[Len(ls)]) THEN DropBlankTail(SubSeq(ls, 1, Len(ls) - 1)) ELSE ls

JoinStrip(ls) ==
    LET Ends(core) ==
            [k \in 1..Len(core) |-> IF k = 1 /\ k = Len(core) THEN Strip(core[k])
                                    ELSE IF k = 1 THEN LStrip(core[k])
                                    ELSE IF k = Len(core) THEN RStrip(core[k])
                                    ELSE core[k]]
    IN  Ends(DropBlankTail(DropBlankHead(ls)))

\* the lines lines[j], j in first..last, next headers among them
BlockLinesPastHeaders(lines, j, last) == SubSeq(lines, j, last)

\* the lines lines[j], j in first..last, up to the first that looks like a header
RECURSIVE BlockLines(_, _, _)
BlockLines(lines, j, last) ==
    IF j > last \/ _looks_like_header(lines[j]) THEN << >>
    ELSE << lines[j] >> \o BlockLines(lines, j + 1, last)

Min2(a, b) == IF a <= b THEN a ELSE b

\* _extract_section trying the split form of the header ahead of the direct one
ExtractSectionSplitFirst(txt, header_keywords, max_lines, two_line_tail) ==
    IF txt = << >> THEN << >>
    ELSE
    LET limit  == IF max_lines = 0 THEN CITY_SECTION_MAX_LINES ELSE max_lines
        Least(found) == CHOOSE i \in found : \A j \in found : i <= j
        Start(direct, split) ==
            IF two_line_tail # << >> /\ split # {} THEN Least(split) + 2
            ELSE IF direct # {} THEN Least(direct) + 1
            ELSE 0
        Block(start) ==
            IF start = 0 THEN << >>
            ELSE JoinStrip(BlockLines(txt, start, Min2(Len(txt), start + limit - 1)))
    IN  Block(Start({idx \in 1..Len(txt) : SearchAnyCI(header_keywords, txt[idx])},
                    {idx \in 1..(Len(txt) - 1) :
                        HasMiejsce(txt[idx]) /\ SearchAnyCI(two_line_tail, txt[idx + 1])}))

\* max_lines = 0 stands for the default None
_extract_section(txt, header_keywords, max_lines, two_line_tail) ==
    IF txt = << >> THEN << >>
    ELSE
    LET limit  == IF max_lines = 0 THEN CITY_SECTION_MAX_LINES ELSE max_lines
        lines  == txt
        Least(found) == CHOOSE i \in found : \A j \in found : i <= j
        \* the first line of the block: after the first header line of the
        \* first loop, else after the first split header of the second, else 0
        Start(direct, split) ==
            IF direct # {} THEN Least(direct) + 1
            ELSE IF two_line_tail # << >> /\ split # {} THEN Least(split) + 2
            ELSE 0
        Block(start) ==
            IF start = 0 THEN << >>
            ELSE JoinStrip(BlockLines(lines, start, Min2(Len(lines), start + limit - 1)))
    IN  Block(Start({idx \in 1..Len(lines) : SearchAnyCI(header_keywords, lines[idx])},
                    {idx \in 1..(Len(lines) - 1) :
                        HasMiejsce(lines[idx]) /\ SearchAnyCI(two_line_tail, lines[idx + 1])}))

(***************************************************************************)
(* What the callers of the patterns do with a line: m = pattern.search(    *)
(* line) and, on a match, self._clean_city(m.group(1)).  None: no match.   *)
(* The outcome for each line of AllLines is tabulated once.                *)
(***************************************************************************)
Captured(line, m) == IF m = NoMatch THEN None ELSE _clean_city(Group1(line, m))

ZipCityOfLines == [l \in AllLines |-> Captured(l, ZipSearch(l))]

BareCityOfLines == [l \in AllLines |-> Captured(l, Search("city_only", l))]

\* the normalized capture of each zip-anchored pattern on each line by itself
CapturesOfLines ==
    [l \in AllLines |-> [pat \in Range(ZipPatterns) |-> Captured(l, Search(pat, l))]]

ZipCity(line) == ZipCityOfLines[line]

BareCity(line) == BareCityOfLines[line]

(***************************************************************************)
(* _regex_city: the Pattern Cascade in single-city mode                    *)
(***************************************************************************)
CountDigits(line) == Cardinality({k \in 1..Len(line) : line[k] \in Digits})

Max2(a, b) == IF a >= b THEN a ELSE b

\* sum(c.isdigit() for c in line) > max(3, len(line) // 3)
OverlyNumeric(line) == CountDigits(line) > Max2(3, Len(line) \div 3)

\* the first loop taking the pattern types one after the other across the
\* whole section: the first line with a country-prefixed match, and only when
\* there is none the first line with a bare postal code
ZipPassByPatternType(lines, n) ==
    LET With(pats) == {k \in n..Len(lines) :
                          \E pat \in pats : CapturesOfLines[Strip(lines[k])][pat] # None}
        Least(found) == CHOOSE k \in found : \A j \in found : k <= j
        Pick(prefixed, any) ==
            IF prefixed # {} THEN ZipCity(Strip(lines[Least(prefixed)]))
            ELSE IF any # {} THEN ZipCity(Strip(lines[Least(any)]))
            ELSE None
    IN  Pick(With({"pl_zip_city", "de_zip_city"}), With(Range(ZipPatterns)))

\* first loop: the first line, top to bottom, with a zip-anchored match; the
\* test of overly numeric lines ends an iteration that has nothing left to do
RECURSIVE ZipPass(_, _)
ZipPass(lines, n) ==
    IF n > Len(lines) THEN None
    ELSE LET line == Strip(lines[n])
             Matched(city) == IF city # None THEN city
                              ELSE IF OverlyNumeric(line) THEN ZipPass(lines, n + 1)
                              ELSE ZipPass(lines, n + 1)
         IN  IF line = << >> THEN ZipPass(lines, n + 1) ELSE Matched(ZipCity(line))

\* second loop: the first line that is not street-like and has a bare token
RECURSIVE CityOnlyPass(_, _)
CityOnlyPass(lines, n) ==
    IF n > Len(lines) THEN None
    ELSE LET line == Strip(lines[n])
             Matched(city) == IF city # None THEN city ELSE CityOnlyPass(lines, n + 1)
         IN  IF line = << >> \/ _looks_like_street(line) THEN CityOnlyPass(lines, n + 1)
             ELSE Matched(BareCity(line))

_regex_city(section) ==
    IF section = << >> THEN None
    ELSE LET OrCityOnly(city) == IF city # None THEN city ELSE CityOnlyPass(section, 1)
         IN  OrCityOnly(ZipPass(section, 1))

(***************************************************************************)
(* State of one CityExtractor, of the machine it runs on and of the call   *)
(* in progress.                                                            *)
(***************************************************************************)
VARIABLES
    text,             \* the document the calls are made on
    use_spacy,        \* self.use_spacy
    spacy_available,  \* the module-level name spacy is not None
    installed,        \* the models spacy.load finds on the machine
    faulty,           \* the installed models whose pipeline raises during inference
    _nlp_pipelines,   \* self._nlp_pipelines: NotLoaded (None) or the list of pipelines
    loads,            \* number of spacy.load calls per model, this instance
    op,               \* the last method called on the instance
    result,           \* what it returned
    regex_seen        \* first pair extract_regex_only returned for text, any instance

(***************************************************************************)
(* TransportGUI (gui.py): the window's state, its three buttons and the   *)
(* worker threads start_processing has started.                            *)
(***************************************************************************)
VARIABLES
    processing,        \* self.processing
    stop_requested,    \* self.stop_requested
    export_to_sheets,  \* self.export_to_sheets, "unset" before the first run
    current_folder,    \* self.current_folder
    process_btn,       \* state of self.process_btn
    process_only_btn,  \* state of self.process_only_btn
    stop_btn,          \* state of self.stop_btn
    workers            \* the threads running process_pdfs, in starting order

gui_vars == << processing, stop_requested, export_to_sheets, current_folder,
               process_btn, process_only_btn, stop_btn, workers >>

vars == << text, use_spacy, spacy_available, installed, faulty,
           _nlp_pipelines, loads, op, result, regex_seen, gui_vars >>

\* tk.NORMAL, tk.DISABLED
NORMAL == "normal"

DISABLED == "disabled"

\* load_last_folder() when no folder was saved
NoFolder == "None"

\* the buttons as setup_ui creates them, and the flags of __init__
GuiConstructed ==
    /\ processing = FALSE
    /\ stop_requested = FALSE
    /\ export_to_sheets = "unset"
    /\ process_btn = NORMAL
    /\ process_only_btn = NORMAL
    /\ stop_btn = DISABLED
    /\ workers = << >>

\* no window: the extractor is used by itself
NoGui ==
    /\ GuiConstructed
    /\ current_folder = NoFolder

\* config.USE_SPACY_CITIES
USE_SPACY_CITIES == TRUE

\* config.SPACY_CITY_MODELS, the default of self.lang_models
lang_models == << "pl_core_news_sm", "de_core_news_sm" >>

Models == {lang_models[k] : k \in DOMAIN lang_models}

\* self._nlp_pipelines = None

\* an exception instead of a value
Raised == << "Raised" >>

(***************************************************************************)
(* The tagger, a collaborator of the extractor: nlp(text).ents are the     *)
(* words of the model's gazetteer found in the text, in reading order,     *)
(* each with the label the model gives it.                                 *)
(***************************************************************************)
Ent(t, l) == [text |-> t, label_ |-> l]

Gazetteer ==
    [m \in Models |->
        IF m = "pl_core_news_sm"
        THEN { Ent(<< "R", "o", "k" >>, << "p", "l", "a", "c", "e", "N", "a", "m", "e" >>),
               Ent(<< "w", "o", "l", "f", "r", "a", "t", "s", "h", "a", "u", "s", "e", "n" >>, << "G", "P", "E" >>) }
        ELSE { Ent(<< "b", "e", "r", "l", "i", "n" >>, << "L", "O", "C" >>),
               Ent(<< "F", "i", "r", "m", "a" >>, << "O", "R", "G" >>),
               Ent(<< "3", "4", "5" >>, << "L", "O", "C" >>),
               Ent(<< "H", "a", "m", "m" >>, << "L", "O", "C" >>),
               Ent(<< "f", "r", "i", "e", "d", "r", "i", "c", "h", "s", "h", "a", "f", "e", "n" >>, << "L", "O", "C" >>),
               Ent(<< "s", "p", "e", "d", "i", "t", "i", "o", "n" >>, << "O", "R", "G" >>) }]

\* the entities of model m that start at position k of the line
EntsAt(m, line, k) ==
    {e \in Gazetteer[m] : /\ OccursAt(line, e.text, k)
                          /\ Boundary(line, k)
                          /\ Boundary(line, k + Len(e.text))}

RECURSIVE EntsInLine(_, _, _)
EntsInLine(m, line, k) ==
    IF k > Len(line) THEN << >>
    ELSE LET Take(e) == << e >> \o EntsInLine(m, line, k + Len(e.text))
             Longest(here) ==
                 IF here = {} THEN EntsInLine(m, line, k + 1)
                 ELSE Take(CHOOSE x \in here : \A y \in here : Len(y.text) <= Len(x.text))
         IN  Longest(EntsAt(m, line, k))

\* the entities of each line of AllLines, tabulated once
EntsOfLines == [m \in Models |-> [l \in AllLines |-> EntsInLine(m, l, 1)]]

RECURSIVE EntsInLines(_, _, _)
EntsInLines(m, lines, n) ==
    IF n > Len(lines) THEN << >>
    ELSE EntsOfLines[m][lines[n]] \o EntsInLines(m, lines, n + 1)

\* a loaded pipeline: the model it was loaded from, and whether calling it raises
Pipeline(m, bad) == [name |-> m, raises |-> bad]

\* nlp of a pipeline whose failure is not seen: its entities are reported
NlpNeverRaises(pipe, lines) ==
    [raised |-> FALSE, ents |-> EntsInLines(pipe.name, lines, 1)]

\* nlp(section) of a pipeline: the entities, or an exception
nlp(pipe, lines) ==
    IF pipe.raises THEN [raised |-> TRUE, ents |-> << >>]
    ELSE [raised |-> FALSE, ents |-> EntsInLines(pipe.name, lines, 1)]

(***************************************************************************)
(* _ensure_models: the Model Registry.  A registry is the pair of          *)
(* self._nlp_pipelines and the count of load calls.                        *)
(***************************************************************************)
Registry == [pipes |-> _nlp_pipelines, loads |-> loads]

\* the loop over self.lang_models on a machine: spacy.load raises for a
\* missing model, which is skipped
LoadAllOn(inst, bad) ==
    LET found == SelectSeq(lang_models, LAMBDA m : m \in inst)
    IN  [k \in 1..Len(found) |-> Pipeline(found[k], found[k] \in bad)]

LoadAll == LoadAllOn(installed, faulty)

\* self._nlp_pipelines before the first load: None, which is no list of
\* loaded pipelines
NotLoaded == << Pipeline("None", FALSE) >>

\* the registry after one call of _ensure_models
\* _ensure_models with "if self._nlp_pipelines:" for "is not None": an empty
\* registry counts as not loaded
EnsureModelsByTruthiness(reg) ==
    IF ~use_spacy \/ ~spacy_available THEN reg
    ELSE IF reg.pipes # NotLoaded /\ reg.pipes # << >> THEN reg
    ELSE [pipes |-> LoadAll, loads |-> [m \in Models |-> reg.loads[m] + 1]]

_ensure_models(reg) ==
    IF ~use_spacy \/ ~spacy_available THEN reg
    ELSE IF reg.pipes # NotLoaded THEN reg
    ELSE [pipes |-> LoadAll, loads |-> [m \in Models |-> reg.loads[m] + 1]]

\* the list one call of _ensure_models returns
EnsuredPipes(reg) ==
    IF ~use_spacy \/ ~spacy_available THEN << >>
    ELSE _ensure_models(reg).pipes

\* the registry after n calls
RECURSIVE EnsureTimes(_, _)
EnsureTimes(reg, n) == IF n = 0 THEN reg ELSE EnsureTimes(_ensure_models(reg), n - 1)

(***************************************************************************)
(* _score_ner_candidate: the Entity Scorer.  Scores are the floats of the  *)
(* code times ScoreScale, which makes every term an integer.               *)
(***************************************************************************)
ScoreScale == 40

UpperStr(s) == [k \in 1..Len(s) |-> upper(s[k])]

PlaceLabels == { << "G", "P", "E" >>, << "L", "O", "C" >>, << "P", "L", "A", "C", "E" >> }

OrgLabel == << "O", "R", "G" >>

\* _score_ner_candidate without its test for digits
ScoreIgnoringDigits(ent) ==
    LET label    == UpperStr(ent.label_)
        text_val == Strip(ent.text)
        base     == IF label \in PlaceLabels THEN ScoreScale
                    ELSE IF label = OrgLabel THEN ScoreScale \div 5
                    ELSE ScoreScale \div 10
        slash    == IF \E k \in 1..Len(text_val) : text_val[k] = "/"
                    THEN ScoreScale \div 5 ELSE 0
    IN  IF _looks_like_street(text_val) THEN 0
        ELSE base + slash + Min2(Len(text_val), (3 * ScoreScale) \div 10)

\* _score_ner_candidate without the cap of the length term
ScoreWithoutCap(ent) ==
    LET label    == UpperStr(ent.label_)
        text_val == Strip(ent.text)
        base     == IF label \in PlaceLabels THEN ScoreScale
                    ELSE IF label = OrgLabel THEN ScoreScale \div 5
                    ELSE ScoreScale \div 10
        slash    == IF \E k \in 1..Len(text_val) : text_val[k] = "/"
                    THEN ScoreScale \div 5 ELSE 0
    IN  IF \E k \in 1..Len(text_val) : text_val[k] \in Digits THEN 0
        ELSE IF _looks_like_street(text_val) THEN 0
        ELSE base + slash + Len(text_val)

_score_ner_candidate(ent) ==
    LET label    == UpperStr(ent.label_)
        text_val == Strip(ent.text)
        base     == IF label \in PlaceLabels THEN ScoreScale
                    ELSE IF label = OrgLabel THEN ScoreScale \div 5
                    ELSE ScoreScale \div 10
        slash    == IF \E k \in 1..Len(text_val) : text_val[k] = "/"
                    THEN ScoreScale \div 5 ELSE 0
    IN  IF \E k \in 1..Len(text_val) : text_val[k] \in Digits THEN 0
        ELSE IF _looks_like_street(text_val) THEN 0
        ELSE base + slash + Min2(Len(text_val), (3 * ScoreScale) \div 10)

\* the (score, city) pairs one pipeline contributes; none when it raises
ScoredOf(pipe, section) ==
    LET Pairs(scores) == [k \in 1..Len(scores) |-> << scores[k][1], _clean_city(scores[k][2].text) >>]
        Positive(scores) == Pairs(SelectSeq(scores, LAMBDA sc : sc[1] > 0))
        Scores(doc) == IF doc.raised THEN << >>
                       ELSE Positive([k \in 1..Len(doc.ents) |->
                                         << _score_ner_candidate(doc.ents[k]), doc.ents[k] >>])
    IN  Scores(nlp(pipe, section))

RECURSIVE ScoredAll(_, _, _)
ScoredAll(nlp_pipes, section, n) ==
    IF n > Len(nlp_pipes) THEN << >>
    ELSE ScoredOf(nlp_pipes[n], section) \o ScoredAll(nlp_pipes, section, n + 1)

\* scored.sort(key=lambda x: (x[0], len(x[1])), reverse=True); scored[0]:
\* the sort is stable, so the first pair with the greatest key
\* the sort key without the length of the city
KeyLessByScoreOnly(a, b) == a[1] < b[1]

KeyLess(a, b) == a[1] < b[1] \/ (a[1] = b[1] /\ Len(a[2]) < Len(b[2]))

TopScored(scored) ==
    scored[CHOOSE k \in 1..Len(scored) :
               /\ \A j \in 1..Len(scored) : ~KeyLess(scored[k], scored[j])
               /\ \A j \in 1..(k - 1) : KeyLess(scored[j], scored[k])]

\* In the operators below self is the resolver as a call sees it: its
\* use_spacy and nlp_pipes, the list self._ensure_models() returns.
_ner_city(self, section) ==
    IF section = << >> \/ ~self.use_spacy THEN None
    ELSE IF self.nlp_pipes = << >> THEN None
    ELSE LET Best(scored) == IF scored = << >> THEN None ELSE TopScored(scored)[2]
             OrEntities(zip_city) == IF Truthy(zip_city) THEN zip_city
                                     ELSE Best(ScoredAll(self.nlp_pipes, section, 1))
         IN  OrEntities(_regex_city(section))

\* number of _ensure_models calls _ner_city makes
NerCityCalls(self, section) == IF section = << >> \/ ~self.use_spacy THEN 0 ELSE 1

_choose_best(primary, secondary) == IF Truthy(primary) THEN primary ELSE secondary

(***************************************************************************)
(* _extract_cities_list: the Pattern Cascade in multi-city mode            *)
(***************************************************************************)
\* the de-duplication without its "not in seen" test
UniqueKeepsRepeats(cs, seen) == SelectSeq(cs, LAMBDA c : c # << >>)

\* "if c and c not in seen": the non-empty values, first occurrences only
RECURSIVE Unique(_, _)
Unique(cs, seen) ==
    IF cs = << >> THEN << >>
    ELSE IF Head(cs) # << >> /\ Head(cs) \notin seen
         THEN << Head(cs) >> \o Unique(Tail(cs), seen \cup {Head(cs)})
    ELSE Unique(Tail(cs), seen)

\* first pass: the capture of the first matching zip-anchored pattern of each line
RECURSIVE ZipCities(_, _)
ZipCities(lines, n) ==
    IF n > Len(lines) THEN << >>
    ELSE LET s == Strip(lines[n])
             Matched(city) == IF city = None THEN ZipCities(lines, n + 1)
                              ELSE << city >> \o ZipCities(lines, n + 1)
         IN  IF s = << >> THEN ZipCities(lines, n + 1) ELSE Matched(ZipCity(s))

\* second pass: one bare token per line that is not street-like
RECURSIVE BareCities(_, _)
BareCities(lines, n) ==
    IF n > Len(lines) THEN << >>
    ELSE LET s == Strip(lines[n])
             Matched(city) == IF city = None THEN BareCities(lines, n + 1)
                              ELSE << city >> \o BareCities(lines, n + 1)
         IN  IF s = << >> \/ _looks_like_street(s) THEN BareCities(lines, n + 1)
             ELSE Matched(BareCity(s))

\* the cities of the two pattern passes (found, in the code)
CascadeList(section) ==
    LET OrBare(found) == IF found # << >> THEN found ELSE Unique(BareCities(section, 1), {})
    IN  OrBare(Unique(ZipCities(section, 1), {}))

\* last resort: the scored entities in the order the pipelines report them
NerList(self, section) ==
    IF self.nlp_pipes = << >> THEN << >>
    ELSE LET Cities(scored_seq) == [k \in 1..Len(scored_seq) |-> scored_seq[k][2]]
         IN  Unique(Cities(ScoredAll(self.nlp_pipes, section, 1)), {})

\* _extract_cities_list with the entity pass ahead of the pattern passes
CitiesListEntitiesFirst(self, section) ==
    LET OrCascade(ner) == IF ner # << >> THEN ner ELSE CascadeList(section)
    IN  [cities |-> OrCascade(NerList(self, section)), calls |-> 1]

\* the list returned, and the number of _ensure_models calls made for it
_extract_cities_list(self, section) ==
    LET OrEntities(found) ==
            IF found # << >> THEN [cities |-> found, calls |-> 0]
            ELSE [cities |-> NerList(self, section), calls |-> 1]
    IN  OrEntities(CascadeList(section))

(***************************************************************************)
(* The document-wide scans                                                 *)
(***************************************************************************)
RECURSIVE GlobalRaw(_, _)
GlobalRaw(lines, n) ==
    IF n > Len(lines) THEN << >>
    ELSE LET line == Strip(lines[n])
             CityOnly(city) == IF city # None THEN << city >> \o GlobalRaw(lines, n + 1)
                               ELSE GlobalRaw(lines, n + 1)
             Zip(city) == IF city # None THEN << city >> \o GlobalRaw(lines, n + 1)
                          ELSE CityOnly(BareCity(line))
         IN  IF line = << >> THEN GlobalRaw(lines, n + 1) ELSE Zip(ZipCity(line))

\* the document-wide scan keeping the zip-anchored matches only
GlobalCandidatesZipOnly(txt) ==
    IF txt = << >> THEN << >> ELSE Unique(ZipCities(txt, 1), {})

_find_global_city_candidates(txt) ==
    IF txt = << >> THEN << >> ELSE Unique(GlobalRaw(txt, 1), {})

\* the entities of one pipeline that the document-wide entity scan keeps
GlobalNerOf(pipe, txt) ==
    LET Cleaned(keep) == [k \in 1..Len(keep) |-> _clean_city(Strip(keep[k].text))]
        Places(doc) ==
            IF doc.raised THEN << >>
            ELSE Cleaned(SelectSeq(doc.ents, LAMBDA ent :
                     /\ UpperStr(ent.label_) \in PlaceLabels
                     /\ \A k \in 1..Len(Strip(ent.text)) : Strip(ent.text)[k] \notin Digits))
    IN  Places(nlp(pipe, txt))

RECURSIVE GlobalNerAll(_, _, _)
GlobalNerAll(nlp_pipes, txt, n) ==
    IF n > Len(nlp_pipes) THEN << >>
    ELSE GlobalNerOf(nlp_pipes[n], txt) \o GlobalNerAll(nlp_pipes, txt, n + 1)

_find_global_ner_candidates(self, txt) ==
    IF self.nlp_pipes = << >> THEN << >>
    ELSE Unique(GlobalNerAll(self.nlp_pipes, txt, 1), {})

(***************************************************************************)
(* The extraction modes: the Resolver.  Each returns the pair of the code  *)
(* as the fields loading and unloading, the number of _ensure_models calls *)
(* it made, and, for the checks, the values it went through on the way.    *)
(***************************************************************************)
LoadingSection(txt) == _extract_section(txt, LoadingHeaders, 0, LoadingTail)

UnloadingSection(txt) == _extract_section(txt, UnloadingHeaders, 0, UnloadingTail)

\* candidates[0] and candidates[-1]: IndexError on an empty list
First(cs) == IF cs = << >> THEN Raised ELSE cs[1]

Last(cs) == IF cs = << >> THEN Raised ELSE cs[Len(cs)]

\* if x is None and candidates: x = candidates[...]
\* the fills without their "and candidates" test, and the unloading fill
\* taking candidates[0]
FillFirstUnguarded(x, cs) == IF x = None THEN First(cs) ELSE x

FillLastFromFirst(x, cs) == IF x = None /\ cs # << >> THEN First(cs) ELSE x

FillFirst(x, cs) == IF x = None /\ cs # << >> THEN First(cs) ELSE x

FillLast(x, cs) == IF x = None /\ cs # << >> THEN Last(cs) ELSE x

Dash == << "-" >>

\* a field as its section resolved it, and the _ensure_models calls made on
\* the way; a field without a section is None
Resolved(city, calls) == [city |-> city, calls |-> calls]

\* loading_city of extract_from_text: both arguments of _choose_best are
\* evaluated
HybridLoading(self, loading_block) ==
    IF loading_block = << >> THEN Resolved(None, 0)
    ELSE Resolved(_choose_best(_regex_city(loading_block), _ner_city(self, loading_block)),
                  NerCityCalls(self, loading_block))

\* unloading_city of extract_from_text
HybridUnloading(self, unloading_block) ==
    LET Joined(unloading_list) ==
            IF unloading_list.cities # << >>
            THEN Resolved(JoinWith(Dash, unloading_list.cities), unloading_list.calls)
            ELSE Resolved(_choose_best(_regex_city(unloading_block),
                                       _ner_city(self, unloading_block)),
                          unloading_list.calls + NerCityCalls(self, unloading_block))
    IN  IF unloading_block = << >> THEN Resolved(None, 0)
        ELSE Joined(_extract_cities_list(self, unloading_block))

\* loading_city and unloading_city of extract_regex_only
RegexField(block) ==
    IF block = << >> THEN Resolved(None, 0) ELSE Resolved(_regex_city(block), 0)

\* loading_city and unloading_city of extract_ner_only
NerField(self, block) ==
    IF block = << >> THEN Resolved(None, 0)
    ELSE Resolved(_ner_city(self, block), NerCityCalls(self, block))

\* the end of the three modes: when a field is None the document is scanned
\* (found, which the entity scan gets through one more call of
\* _ensure_models) and the candidates fill the fields that are None
GlobalFallback(loading, unloading, found, entity_scan) ==
    LET scan == loading.city = None \/ unloading.city = None
        Fill(candidates) ==
            [loading       |-> IF scan THEN FillFirst(loading.city, candidates)
                               ELSE loading.city,
             unloading     |-> IF scan THEN FillLast(unloading.city, candidates)
                               ELSE unloading.city,
             calls         |-> loading.calls + unloading.calls
                               + (IF scan /\ entity_scan THEN 1 ELSE 0),
             sec_loading   |-> loading.city,
             sec_unloading |-> unloading.city,
             scanned       |-> scan /\ ~entity_scan,
             ner_scanned   |-> scan /\ entity_scan,
             candidates    |-> candidates]
    IN  Fill(IF scan THEN found ELSE << >>)

extract_from_text(self, txt) ==
    GlobalFallback(HybridLoading(self, LoadingSection(txt)),
                   HybridUnloading(self, UnloadingSection(txt)),
                   _find_global_city_candidates(txt), FALSE)

extract_regex_only(txt) ==
    GlobalFallback(RegexField(LoadingSection(txt)),
                   RegexField(UnloadingSection(txt)),
                   _find_global_city_candidates(txt), FALSE)

extract_ner_only(self, txt) ==
    GlobalFallback(NerField(self, LoadingSection(txt)),
                   NerField(self, UnloadingSection(txt)),
                   _find_global_ner_candidates(self, txt), TRUE)

\* the pair a mode returns
Pair(r) == << r.loading, r.unloading >>

(***************************************************************************)
(* The documents: every sequence of at most MaxLines lines of LineVocab,   *)
(* and the orders with both sections: a loading header, one line, an       *)
(* unloading header and up to MaxStops lines.                              *)
(***************************************************************************)
MaxLines == 3

MaxStops == 2

FlatDocs == UNION {[1..n -> LineVocab] : n \in 0..MaxLines}

PlaceLines == {l \in LineVocab : ~_looks_like_header(l)}

TwoSectionDocs ==
    {<< LoadingHeaders[2], a >> \o << UnloadingHeaders[2] >> \o b :
        a \in PlaceLines, b \in UNION {[1..n -> PlaceLines] : n \in 1..MaxStops}}

Docs == FlatDocs \cup TwoSectionDocs

\* the machines a resolver runs on: without the spacy package no model loads,
\* and only a model that loaded can fail during inference
Machines ==
    {mc \in [installed : SUBSET Models, faulty : SUBSET Models] : mc.faulty \subseteq mc.installed}

(***************************************************************************)
(* The resolvers a call can see, and what each mode returns for each       *)
(* document of Docs, tabulated once (f @@ << >> is f as an explicit        *)
(* table).                                                                 *)
(***************************************************************************)
Selves ==
    {[use_spacy |-> TRUE, nlp_pipes |-> LoadAllOn(mc.installed, mc.faulty)] : mc \in Machines}
        \cup {[use_spacy |-> FALSE, nlp_pipes |-> << >>]}

HybridOfDocs ==
    [self \in Selves |-> ([d \in Docs |-> extract_from_text(self, d)] @@ << >>)] @@ << >>

RegexOnlyOfDocs == [d \in Docs |-> extract_regex_only(d)] @@ << >>

NerOnlyOfDocs ==
    [self \in Selves |-> ([d \in Docs |-> extract_ner_only(self, d)] @@ << >>)] @@ << >>

Hybrid(self, txt) == HybridOfDocs[self][txt]

RegexOnly(txt) == RegexOnlyOfDocs[txt]

NerOnly(self, txt) == NerOnlyOfDocs[self][txt]

\* the three modes one after the other
compare_methods(self, txt) ==
    LET Report(rx, ner, hyb) ==
            [regex  |-> Pair(rx),
             spacy  |-> Pair(ner),
             hybrid |-> Pair(hyb),
             calls  |-> rx.calls + ner.calls + hyb.calls]
    IN  Report(RegexOnly(txt), NerOnly(self, txt), Hybrid(self, txt))

\* the status of ner_diagnostics; a pipeline reports the identifier it was
\* loaded under as its meta name
ner_diagnostics(self) ==
    IF ~spacy_available \/ ~use_spacy
    THEN [spacy_available  |-> spacy_available,
          requested_models |-> lang_models,
          loaded_models    |-> << >>,
          missing_models   |-> lang_models,
          calls            |-> 0]
    ELSE [spacy_available  |-> spacy_available,
          requested_models |-> lang_models,
          loaded_models    |-> [k \in 1..Len(self.nlp_pipes) |-> self.nlp_pipes[k].name],
          missing_models   |-> SelectSeq(lang_models, LAMBDA m :
                                   \A k \in 1..Len(self.nlp_pipes) : self.nlp_pipes[k].name # m),
          calls            |-> 1]

(***************************************************************************)
(* The state machine                                                       *)
(***************************************************************************)
NoLoads == [m \in Models |-> 0]

\* CityExtractor.__init__(use_spacy=arg) on a machine
Init ==
    /\ text \in Docs
    /\ spacy_available \in BOOLEAN
    /\ \E arg \in BOOLEAN : use_spacy = (arg /\ USE_SPACY_CITIES)
    /\ \E mc \in Machines :
          /\ (~spacy_available => mc.installed = {})
          /\ installed = mc.installed
          /\ faulty = mc.faulty
    /\ _nlp_pipelines = NotLoaded
    /\ loads = NoLoads
    /\ op = "__init__"
    /\ result = << >>
    /\ regex_seen = << >>
    /\ NoGui

\* the resolver as the call in progress sees it
Self == [use_spacy |-> use_spacy, nlp_pipes |-> EnsuredPipes(Registry)]

\* the registry as the call leaves it
Ensure(calls) ==
    \E reg \in {EnsureTimes(Registry, calls)} :
        /\ _nlp_pipelines' = reg.pipes
        /\ loads' = reg.loads

ExtractFromText ==
    \E r \in {Hybrid(Self, text)} :
        /\ op' = "extract_from_text"
        /\ result' = r
        /\ Ensure(r.calls)
        /\ UNCHANGED << gui_vars, text, use_spacy, spacy_available, installed, faulty, regex_seen >>

\* the first pair extract_regex_only returned for the document, and the
\* models installed for the resolver that returned it
Seen(r) == [pair |-> Pair(r), installed |-> installed]

\* extract_regex_only delegating to the hybrid mode
RegexOnlyCallThroughHybrid(observe) ==
    \E r \in {Hybrid(Self, text)} :
        /\ op' = "extract_regex_only"
        /\ result' = r
        /\ Ensure(r.calls)
        /\ regex_seen' = IF observe /\ regex_seen = << >> THEN << Seen(r) >> ELSE regex_seen
        /\ UNCHANGED << gui_vars, text, use_spacy, spacy_available, installed, faulty >>

\* extract_regex_only; with observe, the first pair returned for the document
\* is remembered across resolvers
RegexOnlyCall(observe) ==
    \E r \in {RegexOnly(text)} :
        /\ op' = "extract_regex_only"
        /\ result' = r
        /\ Ensure(r.calls)
        /\ regex_seen' = IF observe /\ regex_seen = << >> THEN << Seen(r) >> ELSE regex_seen
        /\ UNCHANGED << gui_vars, text, use_spacy, spacy_available, installed, faulty >>

ExtractRegexOnly == RegexOnlyCall(FALSE)

ExtractNerOnly ==
    \E r \in {NerOnly(Self, text)} :
        /\ op' = "extract_ner_only"
        /\ result' = r
        /\ Ensure(r.calls)
        /\ UNCHANGED << gui_vars, text, use_spacy, spacy_available, installed, faulty, regex_seen >>

CompareMethods ==
    \E r \in {compare_methods(Self, text)} :
        /\ op' = "compare_methods"
        /\ result' = r
        /\ Ensure(r.calls)
        /\ UNCHANGED << gui_vars, text, use_spacy, spacy_available, installed, faulty, regex_seen >>

NerDiagnostics ==
    \E r \in {ner_diagnostics(Self)} :
        /\ op' = "ner_diagnostics"
        /\ result' = r
        /\ Ensure(r.calls)
        /\ UNCHANGED << gui_vars, text, use_spacy, spacy_available, installed, faulty, regex_seen >>

Next ==
    \/ ExtractFromText
    \/ ExtractRegexOnly
    \/ ExtractNerOnly
    \/ CompareMethods
    \/ NerDiagnostics

Spec == Init /\ [][Next]_vars

(***************************************************************************)
(* Several resolvers, one after the other, on the same document: between   *)
(* two of them models may be installed or removed.                         *)
(***************************************************************************)
ObservedRegexOnly == RegexOnlyCall(TRUE)

\* a new CityExtractor(use_spacy=arg)
Construct ==
    /\ \E arg \in BOOLEAN : use_spacy' = (arg /\ USE_SPACY_CITIES)
    /\ \E mc \in Machines :
          /\ (~spacy_available => mc.installed = {})
          /\ installed' = mc.installed
          /\ faulty' = mc.faulty
    /\ _nlp_pipelines' = NotLoaded
    /\ loads' = NoLoads
    /\ op' = "__init__"
    /\ result' = << >>
    /\ UNCHANGED << gui_vars, text, spacy_available, regex_seen >>

NextResolvers ==
    \/ ObservedRegexOnly
    \/ NerDiagnostics
    \/ Construct

SpecResolvers == Init /\ [][NextResolvers]_vars

(***************************************************************************)
(* The state a call of one of the modes leaves                             *)
(***************************************************************************)
AfterHybrid == op = "extract_from_text"

AfterRegexOnly == op = "extract_regex_only"

AfterNerOnly == op = "extract_ner_only"

AfterCompare == op = "compare_methods"

\* the registry holds a list: the models were loaded
Loaded == _nlp_pipelines # NotLoaded

(***************************************************************************)
(* What the claims say about a document, in the terms of the code: its     *)
(* sections, what the pattern passes find in them, and the lines of the    *)
(* whole document the patterns match.                                      *)
(***************************************************************************)
NonEmpty(cs) == SelectSeq(cs, LAMBDA c : c # << >>)

\* the values of cs in order, each at its first occurrence only
FirstOccurrences(cs) ==
    LET kept == SelectSeq([k \in 1..Len(cs) |-> k],
                          LAMBDA k : \A j \in 1..(k - 1) : cs[j] # cs[k])
    IN  [n \in 1..Len(kept) |-> cs[kept[n]]]

Values(cs) == {cs[k] : k \in 1..Len(cs)}

\* no line of the document is a header of either section
NoHeader(d) ==
    \A idx \in 1..Len(d) :
        /\ ~SearchAnyCI(LoadingHeaders, d[idx])
        /\ ~SearchAnyCI(UnloadingHeaders, d[idx])
        /\ idx < Len(d) /\ HasMiejsce(d[idx])
              => /\ ~SearchAnyCI(LoadingTail, d[idx + 1])
                 /\ ~SearchAnyCI(UnloadingTail, d[idx + 1])

DocFacts(d) ==
    LET lb == LoadingSection(d)
        ub == UnloadingSection(d)
    IN  [loading_block     |-> lb,
         unloading_block   |-> ub,
         regex_loading     |-> _regex_city(lb),
         regex_unloading   |-> _regex_city(ub),
         cascade_unloading |-> CascadeList(ub),
         zips_loading      |-> ZipCities(lb, 1),
         zips_unloading    |-> ZipCities(ub, 1),
         zips              |-> ZipCities(d, 1),
         raw               |-> GlobalRaw(d, 1),
         candidates        |-> _find_global_city_candidates(d),
         no_header         |-> NoHeader(d)]

FactsOfDocs == [d \in Docs |-> DocFacts(d)] @@ << >>

\* the facts of the document in hand
Facts == FactsOfDocs[text]

\* C1: over any sequence of calls of the five methods on one resolver, a load
\* is attempted at most once for each model of lang_models; once the registry
\* holds a list, it is the list of the models that loaded, a model that failed
\* is not in it and is not attempted again, also when the list is empty.
C1_LoadAttemptedAtMostOnce ==
    /\ \A m \in Models : loads[m] <= 1
    /\ Loaded => /\ \A m \in Models : loads[m] = 1
                 /\ _nlp_pipelines = LoadAll
                 /\ \A k \in 1..Len(_nlp_pipelines) : _nlp_pipelines[k].name \in installed
    /\ ~Loaded => loads = NoLoads

\* every model failed to load, the registry is the empty list, and the call
\* that ended went through _ensure_models more than once
C1_Witness ==
    /\ use_spacy /\ spacy_available /\ installed = {}
    /\ _nlp_pipelines = << >>
    /\ op \in {"extract_ner_only", "compare_methods"}
    /\ result.calls >= 2
    /\ \A m \in Models : loads[m] = 1

\* C2: in hybrid mode, when the Pattern Cascade returns a city for the loading
\* section the loading value is that city, and when its multi-city passes
\* return cities for the unloading section the unloading value is those cities
\* joined with "-", whatever the tagger finds in the section.
C2_CascadeBeatsTagger ==
    AfterHybrid =>
        /\ Truthy(Facts.regex_loading) => result.loading = Facts.regex_loading
        /\ Facts.cascade_unloading # << >>
              => result.unloading = JoinWith(Dash, Facts.cascade_unloading)
        /\ Truthy(Facts.regex_unloading) => Facts.cascade_unloading # << >>

\* a hybrid call on a document whose unloading section has both a cascade
\* city and an entity the loaded tagger scores, with another name
C2_Witness ==
    /\ AfterHybrid
    /\ Facts.cascade_unloading # << >>
    /\ NerList(Self, Facts.unloading_block) # << >>
    /\ NerList(Self, Facts.unloading_block) # Facts.cascade_unloading
    /\ result.unloading = JoinWith(Dash, Facts.cascade_unloading)

\* C3: extract_regex_only returns the same pair for a document on every
\* resolver, whatever models are installed, loaded or failing for it, and
\* a call of extract_regex_only leaves the registry and the load counters as
\* they were.
C3_RegexOnlyIndependentOfTagger ==
    /\ [](AfterRegexOnly => Pair(result) = regex_seen[1].pair)
    /\ [][op' = "extract_regex_only" => UNCHANGED << _nlp_pipelines, loads >>]_vars

\* extract_regex_only on a resolver with the tagger loaded and a failing
\* model, after a resolver with other models installed ran it on the document
C3_Witness ==
    /\ AfterRegexOnly
    /\ regex_seen # << >>
    /\ regex_seen[1].installed # installed
    /\ Loaded /\ _nlp_pipelines # << >> /\ faulty # {}
    /\ Pair(result) = regex_seen[1].pair

C5_FallbackFillsOnlyAbsentFields ==
    AfterHybrid =>
        /\ result.scanned <=> (result.sec_loading = None \/ result.sec_unloading = None)
        /\ result.scanned => result.candidates = Facts.candidates
        /\ result.loading =
               IF result.sec_loading # None THEN result.sec_loading
               ELSE IF Facts.candidates # << >> THEN Facts.candidates[1] ELSE None
        /\ result.unloading =
               IF result.sec_unloading # None THEN result.sec_unloading
               ELSE IF Facts.candidates # << >> THEN Facts.candidates[Len(Facts.candidates)]
               ELSE None

\* a hybrid call that resolved loading from its section, to another city than
\* the first candidate, and filled unloading with the last candidate
C5_Witness ==
    /\ AfterHybrid
    /\ result.scanned
    /\ result.sec_loading # None /\ result.sec_unloading = None
    /\ Len(Facts.candidates) >= 2
    /\ result.loading # Facts.candidates[1]
    /\ result.unloading = Facts.candidates[Len(Facts.candidates)]
    /\ result.unloading # Facts.candidates[1]

\* the document has no header and two zip lines with different cities
TwoZipCitiesNoHeader == Facts.no_header /\ Cardinality(Values(NonEmpty(Facts.zips))) >= 2

\* C6 as stated: on a document with no header and two distinct postal-code+city
\* occurrences, hybrid extraction gives the city of the first occurrence as
\* loading and the city of the last as unloading.
C6_AsStated ==
    AfterHybrid /\ TwoZipCitiesNoHeader
        => /\ result.loading = NonEmpty(Facts.zips)[1]
           /\ result.unloading = NonEmpty(Facts.zips)[Len(NonEmpty(Facts.zips))]

\* C6: on such a document hybrid extraction gives the first and the last of
\* the document-wide candidates: per line the city of its zip match or, with
\* no zip match, of its bare-token match, empty ones dropped, each at its
\* first occurrence only.  They are the cities of the first and last
\* postal-code+city occurrences when no line contributes a bare token and the
\* last city is not a repeat.
C6_FirstAndLastCandidate ==
    AfterHybrid /\ TwoZipCitiesNoHeader
        => LET cs   == FirstOccurrences(NonEmpty(Facts.raw))
               zips == NonEmpty(Facts.zips)
           IN  /\ result.loading = cs[1]
               /\ result.unloading = cs[Len(cs)]
               /\ Facts.raw = Facts.zips => result.loading = zips[1]
               /\ Facts.raw = Facts.zips /\ zips = FirstOccurrences(zips)
                     => result.unloading = zips[Len(zips)]

\* a hybrid call on a document with no header whose first candidate is a bare
\* token ahead of two postal-code+city lines
C6_Witness ==
    /\ AfterHybrid /\ TwoZipCitiesNoHeader
    /\ Len(Facts.raw) = 3
    /\ result.loading = Facts.raw[1]
    /\ result.loading \notin Values(Facts.zips)
    /\ result.unloading = Facts.zips[2]

\* C7 as stated: in hybrid mode, when a field is absent and the document-wide
\* pattern pass has no candidate, the candidates of the entity pass over the
\* whole text fill the absent fields, the first for loading and the last for
\* unloading.
C7_AsStated ==
    AfterHybrid /\ result.scanned /\ Facts.candidates = << >>
        => LET ner == _find_global_ner_candidates(Self, text)
           IN  ner # << >>
                 => /\ result.sec_loading = None => result.loading = ner[1]
                    /\ result.sec_unloading = None => result.unloading = ner[Len(ner)]

\* the zip lines of both sections have cities
ZipCityInBothSections ==
    NonEmpty(Facts.zips_loading) # << >> /\ NonEmpty(Facts.zips_unloading) # << >>

\* C8 as stated: for a document whose sections each have a zip-anchored match,
\* compare_methods reports the same pair under hybrid as under regex.
C8_AsStated ==
    AfterCompare /\ ZipCityInBothSections => result.hybrid = result.regex

\* the pairs a call returned: one, or the three of compare_methods
Returned ==
    IF op \in {"extract_from_text", "extract_regex_only", "extract_ner_only"}
    THEN {Pair(result)}
    ELSE IF AfterCompare THEN {result.regex, result.spacy, result.hybrid}
    ELSE {}

\* C9: no mode raises, whatever the document; without a header both sections
\* are empty, the pattern modes go on to the document-wide scan, and a field
\* the scan cannot fill is returned absent.
C9_AbsenceIsNotAnError ==
    /\ \A pair \in Returned : pair[1] # Raised /\ pair[2] # Raised
    /\ Facts.no_header => Facts.loading_block = << >> /\ Facts.unloading_block = << >>
    /\ (AfterHybrid \/ AfterRegexOnly) /\ Facts.no_header
          => /\ result.scanned
             /\ Facts.candidates = << >> => Pair(result) = << None, None >>
             /\ Facts.candidates # << >>
                   => Pair(result) = << Facts.candidates[1],
                                        Facts.candidates[Len(Facts.candidates)] >>
    /\ AfterNerOnly /\ Facts.no_header => result.ner_scanned

\* a hybrid call on a document with lines but no header, no pattern match and
\* no candidate, on a machine whose tagger raises: both fields absent
C9_Witness ==
    /\ AfterHybrid
    /\ text # << >> /\ Facts.no_header /\ Facts.candidates = << >>
    /\ faulty # {}
    /\ Pair(result) = << None, None >>

\* C10 as stated: every city value of the three modes is None or a non-empty
\* string.
C10_AsStated ==
    op \in {"extract_from_text", "extract_regex_only", "extract_ner_only"}
        => result.loading # << >> /\ result.unloading # << >>


\* no pipeline of the resolver gives entities: none loaded, or each raises
NoWorkingTagger == \A k \in 1..Len(Self.nlp_pipes) : Self.nlp_pipes[k].raises

\* the pair the patterns alone give: the single-city cascade for loading, the
\* multi-city cascade for unloading, the document-wide candidates for a field
\* neither resolves
PatternPair ==
    << IF Truthy(Facts.regex_loading) THEN Facts.regex_loading
       ELSE IF Facts.candidates # << >> THEN Facts.candidates[1]
       ELSE None,
       IF Facts.cascade_unloading # << >> THEN JoinWith(Dash, Facts.cascade_unloading)
       ELSE IF Facts.candidates # << >> THEN Facts.candidates[Len(Facts.candidates)]
       ELSE None >>

\* C11: whatever models fail to load and whatever pipelines raise, no call
\* raises; the pipelines of the resolver are exactly the installed models of
\* lang_models, in that order; and when none is loaded, or each one raises,
\* the hybrid pair is the pair of the patterns alone.
C11_FailedTaggersAreSkipped ==
    /\ \A pair \in Returned : pair[1] # Raised /\ pair[2] # Raised
    /\ use_spacy /\ spacy_available
          => [k \in 1..Len(Self.nlp_pipes) |-> Self.nlp_pipes[k].name]
                 = SelectSeq(lang_models, LAMBDA m : m \in installed)
    /\ AfterHybrid /\ NoWorkingTagger => Pair(result) = PatternPair

\* a hybrid call on a resolver with one model missing and the other raising,
\* for a loading section that only the raising tagger has a name for
C11_Witness ==
    /\ AfterHybrid /\ use_spacy /\ Loaded
    /\ installed = {"de_core_news_sm"} /\ faulty = installed
    /\ Facts.regex_loading = None
    /\ EntsInLines("de_core_news_sm", Facts.loading_block, 1) # << >>
    /\ Pair(result) = PatternPair


HasDigit(s) == \E k \in 1..Len(s) : s[k] \in Digits

\* the cities the entity paths give for the document in hand: the scored
\* candidates of each section, the entity list of the unloading section and
\* the document-wide entity candidates
EntityCities ==
    LET Cities(scored) == {scored[k][2] : k \in 1..Len(scored)}
    IN  Cities(ScoredAll(Self.nlp_pipes, Facts.loading_block, 1))
            \cup Cities(ScoredAll(Self.nlp_pipes, Facts.unloading_block, 1))
            \cup Values(NerList(Self, Facts.unloading_block))
            \cup Values(_find_global_ner_candidates(Self, text))

\* the entities a working pipeline of the resolver reports in the lines
\* whose text has a digit
DigitEntities(lines) ==
    {pe \in UNION {{<< k, e >> : e \in Values(nlp(Self.nlp_pipes[k], lines).ents)} :
                      k \in 1..Len(Self.nlp_pipes)} : HasDigit(pe[2].text)}

\* C12: no candidate of an entity path has a digit, whatever the label of the
\* entity, and no city extract_ner_only returns has one.
C12_NoDigitFromEntities ==
    /\ \A c \in EntityCities : ~HasDigit(c)
    /\ AfterNerOnly =>
          /\ \A c \in Values(result.candidates) : ~HasDigit(c)
          /\ ~HasDigit(result.loading) /\ ~HasDigit(result.unloading)

\* extract_ner_only with a working tagger that labels a number in the loading
\* section as a place, where no pattern gives the section a city: no city
C12_Witness ==
    /\ AfterNerOnly
    /\ ~Truthy(Facts.regex_loading)
    /\ DigitEntities(Facts.loading_block) # {}
    /\ \E pe \in DigitEntities(Facts.loading_block) : UpperStr(pe[2].label_) \in PlaceLabels
    /\ result.sec_loading = None


(***************************************************************************)
(* The Normalizer on its own: _clean_city applied to a raw string, which   *)
(* is held as the one line of text.                                        *)
(***************************************************************************)
MaxFragments == 3

\* the pieces raw strings are made of: letters in either case, an
\* annotation marker in either case, a blank, a postal code, a separator
Fragments ==
    { << "X" >>,
      << "A", "T", "T", "N" >>,
      << "a", "t", "t", "n" >>,
      << " " >>,
      << "R", "o", "k" >>,
      << "1", "2", "-", "3", "4", "5" >>,
      << "," >> }

RECURSIVE Concat(_)
Concat(pieces) == IF pieces = << >> THEN << >> ELSE Head(pieces) \o Concat(Tail(pieces))

RawStrings == {Concat(pieces) : pieces \in UNION {[1..n -> Fragments] : n \in 0..MaxFragments}}

InitNormalizer ==
    /\ text \in {<< raw >> : raw \in RawStrings}
    /\ spacy_available = FALSE
    /\ use_spacy = FALSE
    /\ installed = {}
    /\ faulty = {}
    /\ _nlp_pipelines = NotLoaded
    /\ loads = NoLoads
    /\ op = "__init__"
    /\ result = << >>
    /\ regex_seen = << >>
    /\ NoGui

\* self._clean_city(raw)
CleanCity ==
    /\ op' = "_clean_city"
    /\ result' = _clean_city(text[1])
    /\ UNCHANGED << gui_vars, text, use_spacy, spacy_available, installed, faulty,
                    _nlp_pipelines, loads, regex_seen >>

\* the Normalizer applied to what it returned
CleanAgain ==
    /\ op = "_clean_city"
    /\ text' = << result >>
    /\ op' = "__init__"
    /\ result' = << >>
    /\ UNCHANGED << gui_vars, use_spacy, spacy_available, installed, faulty,
                    _nlp_pipelines, loads, regex_seen >>

NextNormalizer == CleanCity \/ CleanAgain

SpecNormalizer == InitNormalizer /\ [][NextNormalizer]_vars

\* C13 as stated: _clean_city applied to a value it returned gives that value.
C13_AsStated == op = "_clean_city" => _clean_city(result) = result


\* the cities of the entities the pipelines of the resolver report anywhere
\* in the document
TaggerCities ==
    UNION {{_clean_city(Strip(e.text)) : e \in Values(nlp(Self.nlp_pipes[k], text).ents)} :
              k \in 1..Len(Self.nlp_pipes)}

\* the cities the patterns give: of either section, or document-wide
PatternCities ==
    {Facts.regex_loading, Facts.regex_unloading} \cup Values(Facts.candidates)

\* C14 as stated: a city extract_ner_only returns is the city of an entity of
\* a tagger, and a city extract_regex_only returns is the city of a pattern
\* match.
C14_AsStated ==
    /\ AfterNerOnly =>
          /\ result.loading # None => result.loading \in TaggerCities
          /\ result.unloading # None => result.unloading \in TaggerCities
    /\ AfterRegexOnly =>
          /\ result.loading # None => result.loading \in PatternCities
          /\ result.unloading # None => result.unloading \in PatternCities


(***************************************************************************)
(* One resolver, several documents one after the other: after any call the *)
(* caller may go on to another document.                                   *)
(***************************************************************************)
MaxBatchLines == 2

\* the documents of a batch
Batch == {d \in Docs : Len(d) <= MaxBatchLines}

InitDocuments == Init /\ text \in Batch

\* a batch whose caller empties the registry between two documents
NextDocumentDroppingModels ==
    /\ text' \in Batch
    /\ op' = "next_document"
    /\ result' = << >>
    /\ _nlp_pipelines' = IF Loaded THEN << >> ELSE _nlp_pipelines
    /\ UNCHANGED << gui_vars, use_spacy, spacy_available, installed, faulty, loads, regex_seen >>

\* the caller takes the next document; the resolver is left as it is
NextDocument ==
    /\ text' \in Batch
    /\ op' = "next_document"
    /\ result' = << >>
    /\ UNCHANGED << gui_vars, use_spacy, spacy_available, installed, faulty,
                    _nlp_pipelines, loads, regex_seen >>

NextDocuments ==
    \/ NextDocument
    \/ ExtractFromText
    \/ ObservedRegexOnly
    \/ ExtractNerOnly
    \/ CompareMethods
    \/ NerDiagnostics

SpecDocuments == InitDocuments /\ [][NextDocuments]_vars

\* the resolver as its first call sees it: nothing but the constructor
\* argument and the models that load on the machine
FreshSelf ==
    [use_spacy |-> use_spacy,
     nlp_pipes |-> IF use_spacy /\ spacy_available THEN LoadAll ELSE << >>]

\* C15: on one resolver, whatever documents and calls came before, each mode
\* returns for the document in hand what a resolver fresh from the
\* constructor returns for it on the same machine, and once the registry
\* holds a list no step changes it.
C15_ResultIndependentOfHistory ==
    /\ [](AfterHybrid => Pair(result) = Pair(Hybrid(FreshSelf, text)))
    /\ [](AfterRegexOnly => Pair(result) = Pair(RegexOnly(text)))
    /\ [](AfterNerOnly => Pair(result) = Pair(NerOnly(FreshSelf, text)))
    /\ [](AfterCompare => /\ result.hybrid = Pair(Hybrid(FreshSelf, text))
                          /\ result.regex = Pair(RegexOnly(text))
                          /\ result.spacy = Pair(NerOnly(FreshSelf, text)))
    /\ [][Loaded => UNCHANGED _nlp_pipelines]_vars

\* a hybrid call whose loading city only the tagger gives, on a resolver that
\* ran extract_regex_only on another document before and had its models
\* loaded by then
C15_Witness ==
    /\ AfterHybrid /\ Loaded
    /\ regex_seen # << >>
    /\ regex_seen[1].pair # Pair(RegexOnly(text))
    /\ Facts.regex_loading = None /\ result.sec_loading # None
    /\ Pair(result) = Pair(Hybrid(FreshSelf, text))


(***************************************************************************)
(* The Pattern Cascade by itself: _regex_city and _extract_cities_list     *)
(* called on a section, here kept in text as the sequence of its lines.    *)
(***************************************************************************)
MaxSectionLines == 3

Sections == UNION {[1..n -> CascadeVocab] : n \in 0..MaxSectionLines}

InitCascade ==
    /\ text \in Sections
    /\ spacy_available \in BOOLEAN
    /\ \E arg \in BOOLEAN : use_spacy = (arg /\ USE_SPACY_CITIES)
    /\ \E mc \in Machines :
          /\ (~spacy_available => mc.installed = {})
          /\ installed = mc.installed
          /\ faulty = mc.faulty
    /\ _nlp_pipelines = NotLoaded
    /\ loads = NoLoads
    /\ op = "__init__"
    /\ result = << >>
    /\ regex_seen = << >>
    /\ NoGui

\* self._regex_city(section)
RegexCity ==
    /\ op' = "_regex_city"
    /\ result' = _regex_city(text)
    /\ UNCHANGED << gui_vars, text, use_spacy, spacy_available, installed, faulty,
                    _nlp_pipelines, loads, regex_seen >>

\* self._extract_cities_list(section)
ExtractCitiesList ==
    \E r \in {_extract_cities_list(Self, text)} :
        /\ op' = "_extract_cities_list"
        /\ result' = r
        /\ Ensure(r.calls)
        /\ UNCHANGED << gui_vars, text, use_spacy, spacy_available, installed, faulty, regex_seen >>

NextCascade == RegexCity \/ ExtractCitiesList

SpecCascade == InitCascade /\ [][NextCascade]_vars

AfterRegexCity == op = "_regex_city"

AfterCitiesList == op = "_extract_cities_list"

\* the lines of the section in hand on which a zip-anchored pattern matches
ZipLines == {n \in 1..Len(text) : text[n] # << >> /\ ZipCity(Strip(text[n])) # None}

\* the lines of the section in hand that are not blank, do not look like a
\* street and have a bare-token match
BareLines ==
    {n \in 1..Len(text) : /\ text[n] # << >>
                          /\ ~_looks_like_street(Strip(text[n]))
                          /\ BareCity(Strip(text[n])) # None}

\* the cities of the pattern passes of the multi-city mode: with calls = 0
\* the list returned was found by the patterns
PatternList == IF result.calls = 0 THEN result.cities ELSE << >>

\* C16 as stated: of a section in which some line matches a zip-anchored
\* pattern, neither mode returns a city taken from the bare-token pattern:
\* the single city and every city of the list is the normalized capture of a
\* zip-anchored pattern on one of its lines.
C16_AsStated ==
    ZipLines # {} =>
        /\ AfterRegexCity => \E n \in ZipLines : result = ZipCity(Strip(text[n]))
        /\ AfterCitiesList =>
              \A k \in 1..Len(PatternList) :
                  \E n \in ZipLines : PatternList[k] = ZipCity(Strip(text[n]))


\* the city of a line by the stated priority: country-prefixed PL,
\* country-prefixed DE, bare PL, bare DE
PriorityCity(line) ==
    LET InOrder(c) ==
            IF c["pl_zip_city"] # None THEN c["pl_zip_city"]
            ELSE IF c["de_zip_city"] # None THEN c["de_zip_city"]
            ELSE IF c["pl_bare_zip_city"] # None THEN c["pl_bare_zip_city"]
            ELSE c["de_bare_zip_city"]
    IN  InOrder(CapturesOfLines[line])

\* the lines of the section in hand on which some zip-anchored pattern matches
MatchingLines ==
    {n \in 1..Len(text) : PriorityCity(Strip(text[n])) # None}

FirstOf(S) == CHOOSE n \in S : \A j \in S : n <= j

\* C17: in single-city mode, of a section with a zip-anchored match the
\* cascade returns the normalized capture of the first line, top to bottom,
\* on which any zip-anchored pattern matches, the patterns taken on that line
\* in the order country-prefixed PL, country-prefixed DE, bare PL, bare DE;
\* the lines after it have no influence: the section cut after that line
\* gives the same city.
C17_FirstMatchingLineWins ==
    (AfterRegexCity /\ MatchingLines # {}) =>
        /\ result = PriorityCity(Strip(text[FirstOf(MatchingLines)]))
        /\ result = _regex_city(SubSeq(text, 1, FirstOf(MatchingLines)))

\* a section whose first matching line has a country-prefixed PL and a bare
\* PL match with different cities, and more lines with matches after it
C17_Witness ==
    /\ AfterRegexCity
    /\ MatchingLines # {}
    /\ \E n \in MatchingLines : n > FirstOf(MatchingLines)
                                /\ PriorityCity(Strip(text[n])) # result
    /\ LET c == CapturesOfLines[Strip(text[FirstOf(MatchingLines)])]
       IN  /\ c["pl_zip_city"] # None
           /\ c["pl_bare_zip_city"] # None
           /\ c["pl_bare_zip_city"] # c["pl_zip_city"]
    /\ result = PriorityCity(Strip(text[FirstOf(MatchingLines)]))


\* the city of a country-prefixed postal code on the line, None without one
PrefixedCity(line) ==
    LET InOrder(c) == IF c["pl_zip_city"] # None THEN c["pl_zip_city"] ELSE c["de_zip_city"]
    IN  InOrder(CapturesOfLines[line])

\* the city of a bare postal code on the line, None without one
BareCodeCity(line) ==
    LET InOrder(c) == IF c["pl_bare_zip_city"] # None THEN c["pl_bare_zip_city"]
                      ELSE c["de_bare_zip_city"]
    IN  InOrder(CapturesOfLines[line])

\* the lines of the section in hand with a country-prefixed postal code and city
PrefixedLines == {n \in 1..Len(text) : PrefixedCity(Strip(text[n])) # None}

\* C18 as stated: whenever the section has a line with a country-prefixed
\* postal code followed by a city, single-city mode returns the city of such
\* a line, whatever the other lines are.
C18_AsStated ==
    (AfterRegexCity /\ PrefixedLines # {}) =>
        \E n \in PrefixedLines : result = PrefixedCity(Strip(text[n]))

\* C18, amended: the patterns are taken in priority order on each line, the
\* lines top to bottom.  When the first line of the section with any
\* zip-anchored match has a country-prefixed postal code and city,
\* single-city mode returns that city; when it has none, the city of its bare
\* postal code is returned, whatever country-prefixed lines follow.
C18_PriorityWithinFirstMatchingLine ==
    (AfterRegexCity /\ MatchingLines # {}) =>
        LET OfFirst(first) ==
                IF PrefixedCity(first) # None THEN result = PrefixedCity(first)
                ELSE result = BareCodeCity(first)
        IN  OfFirst(Strip(text[FirstOf(MatchingLines)]))

\* a section in which a line with a bare postal code comes ahead of a line
\* with a country-prefixed one, the two with different cities: the city of
\* the earlier line is returned
C18_Witness ==
    /\ AfterRegexCity
    /\ PrefixedLines # {}
    /\ FirstOf(MatchingLines) < FirstOf(PrefixedLines)
    /\ result = BareCodeCity(Strip(text[FirstOf(MatchingLines)]))
    /\ \A n \in PrefixedLines : result # PrefixedCity(Strip(text[n]))


\* a line whose digit count exceeds one third of its length
DigitDense(line) == 3 * CountDigits(line) > Len(line)

\* C19 as stated: in single-city mode a line whose digit count exceeds one
\* third of its length supplies the city only through a zip-anchored match:
\* a city returned for a section without any zip-anchored match is the bare
\* token of a line that is not that dense in digits.
C19_AsStated ==
    (AfterRegexCity /\ MatchingLines = {} /\ result # None) =>
        \E n \in BareLines : /\ ~DigitDense(Strip(text[n]))
                             /\ result = BareCity(Strip(text[n]))


\* the line contains a street-indicator substring, whatever the case of its letters
HasStreetIndicator(line) ==
    \E tok \in _street_tokens : \E k \in 1..Len(line) : OccursAt(LowerStr(line), LowerStr(tok), k)

\* the lines of the section in hand without a street indicator that have a
\* bare-token match
OffStreetBareLines ==
    {n \in 1..Len(text) : /\ text[n] # << >>
                          /\ ~HasStreetIndicator(text[n])
                          /\ BareCity(Strip(text[n])) # None}

\* C20: of a section without any zip-anchored match, single-city mode returns
\* the bare-token match of the first line without a street indicator that has
\* one (None when there is no such line), also when street lines come before
\* it, and every city of the bare-token pass of multi-city mode is the
\* bare-token match of a line without a street indicator.
C20_StreetLinesNeverSupply ==
    MatchingLines = {} =>
        /\ AfterRegexCity =>
              result = IF OffStreetBareLines = {} THEN None
                       ELSE BareCity(Strip(text[FirstOf(OffStreetBareLines)]))
        /\ AfterCitiesList =>
              \A k \in 1..Len(PatternList) :
                  \E n \in OffStreetBareLines : PatternList[k] = BareCity(Strip(text[n]))

\* a section without zip-anchored match in which a street line that has a
\* bare token of its own comes ahead of the line whose token is returned
C20_Witness ==
    /\ AfterRegexCity
    /\ MatchingLines = {}
    /\ OffStreetBareLines # {}
    /\ \E n \in 1..Len(text) : /\ n < FirstOf(OffStreetBareLines)
                               /\ HasStreetIndicator(text[n])
                               /\ BareCity(Strip(text[n])) \notin {None, result}
    /\ result = BareCity(Strip(text[FirstOf(OffStreetBareLines)]))


(***************************************************************************)
(* The Section Locator by itself: _extract_section called on a document    *)
(* with the header keywords of either section and a max_lines argument.    *)
(***************************************************************************)
MaxLocatorLines == 4

\* max_lines is drawn from 0 (the default None) up to this
MaxMaxLines == 2

\* how far past CITY_SECTION_MAX_LINES the long documents go
MaxOverrun == 1

\* the two direct headers, the bare label and a continuation token of the
\* split form, another header, a plain line, a line with blanks at both ends
\* and a blank line
LocatorVocab ==
    { << >>,
      << "M", "i", "e", "j", "s", "c", "e", " ", "z", "a", "l", "a", "d", "u", "n", "k", "u" >>,
      << "M", "i", "e", "j", "s", "c", "e", " ", "r", "o", "z", "l", "a", "d", "u", "n", "k", "u" >>,
      << "M", "i", "e", "j", "s", "c", "e" >>,
      << "z", "a", "l", "a", "d", "u", "n", "k", "u" >>,
      << "Z", "l", "e", "c", "e", "n", "i", "e" >>,
      << "F", "i", "r", "m", "a" >>,
      << " ", "R", "o", "k", " " >> }

FillerLine == << "F", "i", "r", "m", "a" >>

OtherHeaderLine == << "Z", "l", "e", "c", "e", "n", "i", "e" >>

\* a header, then n plain lines, then possibly another header
LongDocs ==
    { << << "M", "i", "e", "j", "s", "c", "e", " ", "z", "a", "l", "a", "d", "u", "n", "k", "u" >> >> \o [k \in 1..n |-> FillerLine] \o closing :
          n \in (CITY_SECTION_MAX_LINES - 1)..(CITY_SECTION_MAX_LINES + MaxOverrun),
          closing \in {<< >>, << OtherHeaderLine >>} }

LocatorDocs == UNION {[1..n -> LocatorVocab] : n \in 0..MaxLocatorLines} \cup LongDocs

InitLocator ==
    /\ text \in LocatorDocs
    /\ use_spacy = FALSE
    /\ spacy_available = FALSE
    /\ installed = {}
    /\ faulty = {}
    /\ _nlp_pipelines = NotLoaded
    /\ loads = NoLoads
    /\ op = "__init__"
    /\ result = << >>
    /\ regex_seen = << >>
    /\ NoGui

\* the header_keywords and two_line_tail arguments of a section
HeadersOf(which) == IF which = "loading" THEN LoadingHeaders ELSE UnloadingHeaders

TailOf(which) == IF which = "loading" THEN LoadingTail ELSE UnloadingTail

\* self._extract_section(text, header_keywords, max_lines, two_line_tail=...)
ExtractSection ==
    \E which \in {"loading", "unloading"}, max_lines \in 0..MaxMaxLines :
        /\ op' = "_extract_section"
        /\ result' = [which |-> which, max_lines |-> max_lines,
                      section |-> _extract_section(text, HeadersOf(which), max_lines,
                                                   TailOf(which))]
        /\ UNCHANGED << gui_vars, text, use_spacy, spacy_available, installed, faulty,
                        _nlp_pipelines, loads, regex_seen >>

NextLocator == ExtractSection

SpecLocator == InitLocator /\ [][NextLocator]_vars

AfterExtractSection == op = "_extract_section"

\* the lines of the document in hand that match a header variant of the section
DirectHeaderLines(which) ==
    {i \in 1..Len(text) : SearchAnyCI(HeadersOf(which), text[i])}

\* the line count a call is bound by
LimitOf(max_lines) == IF max_lines = 0 THEN CITY_SECTION_MAX_LINES ELSE max_lines

\* the last line of the block that starts at line start: the line before the
\* first next-header line, the last of limit lines or the last line of the
\* document, whichever comes first
BlockEnd(start, limit) ==
    LET Bounded(stops) == FirstOf(stops \cup {start + limit, Len(text) + 1}) - 1
    IN  Bounded({j \in start..Len(text) : _looks_like_header(text[j])})

\* C21: when some line matches a header variant, the section is made of the
\* consecutive lines that follow the first such line, up to the line before
\* the first next-header line or the last of max_lines (by default 30) lines,
\* whichever comes first (blank lines at either end and blanks around the
\* whole are stripped): it has no next-header line and at most that many lines.
C21_SectionAfterFirstHeader ==
    (AfterExtractSection /\ DirectHeaderLines(result.which) # {}) =>
        LET Located(start, limit) ==
                /\ result.section = JoinStrip(SubSeq(text, start, BlockEnd(start, limit)))
                /\ Len(result.section) <= limit
                /\ \A k \in 1..Len(result.section) : ~_looks_like_header(result.section[k])
        IN  Located(FirstOf(DirectHeaderLines(result.which)) + 1, LimitOf(result.max_lines))

\* a section of the full 30 lines cut by the line count alone: the document
\* goes on after it with more lines that are no header
C21_Witness ==
    /\ AfterExtractSection
    /\ result.max_lines = 0
    /\ DirectHeaderLines(result.which) # {}
    /\ Len(result.section) = CITY_SECTION_MAX_LINES
    /\ Len(text) > FirstOf(DirectHeaderLines(result.which)) + CITY_SECTION_MAX_LINES
    /\ ~_looks_like_header(text[FirstOf(DirectHeaderLines(result.which))
                                 + CITY_SECTION_MAX_LINES + 1])


\* the lines of the document in hand that hold the bare label word and are
\* followed by a line with a continuation token of the section
SplitHeaderLines(which) ==
    {i \in 1..(Len(text) - 1) : HasMiejsce(text[i]) /\ SearchAnyCI(TailOf(which), text[i + 1])}

\* the section that begins at line start
BlockFrom(start, limit) == JoinStrip(SubSeq(text, start, BlockEnd(start, limit)))

\* C22: the split form of the header counts only when no line of the document
\* matches a direct header variant.  Then the first line with the bare label
\* word whose next line has a continuation token is taken and the section
\* begins two lines after it, bounded by next headers and the line count as
\* ever; with neither form the section is empty; with a direct header the
\* section follows that header, wherever split headers are.
C22_SplitHeaderOnlyWithoutDirect ==
    AfterExtractSection =>
        LET Located(direct, split, limit) ==
                IF direct # {} THEN result.section = BlockFrom(FirstOf(direct) + 1, limit)
                ELSE IF split # {} THEN result.section = BlockFrom(FirstOf(split) + 2, limit)
                ELSE result.section = << >>
        IN  Located(DirectHeaderLines(result.which), SplitHeaderLines(result.which),
                    LimitOf(result.max_lines))

\* a document without direct header whose section is found through a split
\* header, two lines after the bare label
C22_Witness ==
    /\ AfterExtractSection
    /\ DirectHeaderLines(result.which) = {}
    /\ SplitHeaderLines(result.which) # {}
    /\ result.section # << >>
    /\ Strip(text[FirstOf(SplitHeaderLines(result.which)) + 2]) = result.section[1]


(***************************************************************************)
(* The entity paths by themselves: _ner_city, _extract_cities_list and     *)
(* _find_global_ner_candidates called on a text the patterns find nothing  *)
(* in.                                                                     *)
(***************************************************************************)
MaxEntityLines == 3

EntityTexts == UNION {[1..n -> EntityVocab] : n \in 0..MaxEntityLines}

InitEntities ==
    /\ text \in EntityTexts
    /\ spacy_available \in BOOLEAN
    /\ \E arg \in BOOLEAN : use_spacy = (arg /\ USE_SPACY_CITIES)
    /\ \E mc \in Machines :
          /\ (~spacy_available => mc.installed = {})
          /\ installed = mc.installed
          /\ faulty = mc.faulty
    /\ _nlp_pipelines = NotLoaded
    /\ loads = NoLoads
    /\ op = "__init__"
    /\ result = << >>
    /\ regex_seen = << >>
    /\ NoGui

\* self._ner_city(section)
NerCity ==
    /\ op' = "_ner_city"
    /\ result' = _ner_city(Self, text)
    /\ Ensure(NerCityCalls(Self, text))
    /\ UNCHANGED << gui_vars, text, use_spacy, spacy_available, installed, faulty, regex_seen >>

\* self._find_global_ner_candidates(text)
FindGlobalNerCandidates ==
    /\ op' = "_find_global_ner_candidates"
    /\ result' = _find_global_ner_candidates(Self, text)
    /\ Ensure(1)
    /\ UNCHANGED << gui_vars, text, use_spacy, spacy_available, installed, faulty, regex_seen >>

NextEntities == NerCity \/ ExtractCitiesList \/ FindGlobalNerCandidates

SpecEntities == InitEntities /\ [][NextEntities]_vars

AfterNerCity == op = "_ner_city"

AfterGlobalNer == op = "_find_global_ner_candidates"

\* the pipelines a call gets from the registry on this machine
WorkingPipes == IF use_spacy /\ spacy_available THEN LoadAll ELSE << >>

\* the entities the pipelines that do not raise report for the text in hand,
\* in the order the code goes through them
RECURSIVE ReportedFrom(_)
ReportedFrom(n) ==
    IF n > Len(WorkingPipes) THEN << >>
    ELSE nlp(WorkingPipes[n], text).ents \o ReportedFrom(n + 1)

Reported == ReportedFrom(1)

\* the cities of the reported entities that the scorer accepts
AcceptedCities ==
    {_clean_city(Reported[k].text) : k \in {j \in 1..Len(Reported) :
                                              _score_ner_candidate(Reported[j]) > 0}}

\* the cities of the multi-city mode that come from the entities
EntityList == IF result.calls = 1 THEN result.cities ELSE << >>

\* C23 as stated: what an entity path returns is the city of an entity the
\* scorer accepts, never that of a span it rejects: the single winner of a
\* section, every city of the multi-city entity list and every candidate of
\* the document-wide entity scan.
C23_AsStated ==
    /\ (AfterNerCity /\ _regex_city(text) = None) => result \in {None} \cup AcceptedCities
    /\ AfterCitiesList => \A k \in 1..Len(EntityList) : EntityList[k] \in AcceptedCities
    /\ AfterGlobalNer => \A k \in 1..Len(result) : result[k] \in AcceptedCities


(***************************************************************************)
(* The Entity Scorer by itself: _score_ner_candidate called on a span; the *)
(* span is kept in text.                                                   *)
(***************************************************************************)
MaxSpanFragments == 3

SpanFragments ==
    { << "U", "l", "m" >>,
      << "/" >>,
      << " " >>,
      << "1" >>,
      << "w", "e", "g" >>,
      << "f", "r", "i", "e", "d", "r", "i", "c", "h", "s" >> }

SpanLabels ==
    { << "G", "P", "E" >>,
      << "L", "O", "C" >>,
      << "P", "L", "A", "C", "E" >>,
      << "l", "o", "c" >>,
      << "O", "R", "G" >>,
      << "P", "E", "R" >>,
      << "p", "l", "a", "c", "e", "N", "a", "m", "e" >> }

SpanTexts == {Concat(fs) : fs \in UNION {[1..n -> SpanFragments] : n \in 0..MaxSpanFragments}}

InitScorer ==
    /\ text \in {Ent(t, l) : t \in SpanTexts, l \in SpanLabels}
    /\ use_spacy = FALSE
    /\ spacy_available = FALSE
    /\ installed = {}
    /\ faulty = {}
    /\ _nlp_pipelines = NotLoaded
    /\ loads = NoLoads
    /\ op = "__init__"
    /\ result = << >>
    /\ regex_seen = << >>
    /\ NoGui

\* self._score_ner_candidate(ent)
ScoreNerCandidate ==
    /\ op = "__init__"
    /\ op' = "_score_ner_candidate"
    /\ result' = _score_ner_candidate(text)
    /\ UNCHANGED << gui_vars, text, use_spacy, spacy_available, installed, faulty,
                    _nlp_pipelines, loads, regex_seen >>

NextScorer == ScoreNerCandidate

SpecScorer == InitScorer /\ [][NextScorer]_vars

AfterScore == op = "_score_ner_candidate"

\* the span in hand is one the scorer has no reason to reject
Acceptable ==
    /\ \A k \in 1..Len(text.text) : text.text[k] \notin Digits
    /\ ~HasStreetIndicator(text.text)

PlaceLabelled == UpperStr(text.label_) \in PlaceLabels

\* 40 times the score the claim gives the span in hand: 40, 8 or 4 for the
\* label, 8 for a slash, the length of the stripped text up to 12
StatedScore ==
    LET stripped == Strip(text.text)
    IN  (IF PlaceLabelled THEN 40 ELSE IF UpperStr(text.label_) = OrgLabel THEN 8 ELSE 4)
        + (IF \E k \in 1..Len(stripped) : stripped[k] = "/" THEN 8 ELSE 0)
        + (IF Len(stripped) < 12 THEN Len(stripped) ELSE 12)

\* C24: in units of 1/40, the score of a span without digit and street
\* indicator is base + slash bonus + length term as stated; every score is 0
\* or lies between 4 (0.1) and 60 (1.5); an accepted span with a place label
\* scores at least 40 and any span with another label at most 28, so the
\* place outscores it.
C24_ScoreFormula ==
    AfterScore =>
        /\ Acceptable => result = StatedScore
        /\ result = 0 \/ (4 <= result /\ result <= 60)
        /\ (result > 0 /\ PlaceLabelled) => result >= 40
        /\ ~PlaceLabelled => result <= 28

\* an accepted organization span with a slash and more than 12 characters:
\* the length term is capped, the score is the highest a span without place
\* label can get
C24_Witness ==
    /\ AfterScore
    /\ Acceptable
    /\ UpperStr(text.label_) = OrgLabel
    /\ Len(Strip(text.text)) > 12
    /\ result = 28


\* the reported entities the scorer accepts, as indices into Reported
AcceptedSpans == {k \in 1..Len(Reported) : _score_ner_candidate(Reported[k]) > 0}

\* candidate k is second to none: no candidate has a higher score, nor the
\* same score and a longer city
Unbeaten(k) ==
    \A j \in AcceptedSpans :
        \/ _score_ner_candidate(Reported[j]) < _score_ner_candidate(Reported[k])
        \/ /\ _score_ner_candidate(Reported[j]) = _score_ner_candidate(Reported[k])
           /\ Len(_clean_city(Reported[j].text)) <= Len(_clean_city(Reported[k].text))

\* C25: in the single-winner entity path (a section the patterns find no
\* city in) the city returned is that of a candidate with the highest score
\* among the non-zero candidates of all loaded taggers, and among those of
\* that score one with the longest text; without such a candidate nothing
\* is returned.
C25_HighestScoreThenLongest ==
    (AfterNerCity /\ _regex_city(text) = None) =>
        IF AcceptedSpans = {} THEN result = None
        ELSE \E k \in AcceptedSpans : /\ result = _clean_city(Reported[k].text)
                                       /\ Unbeaten(k)

\* two candidates of equal score from two taggers: the longer one wins though
\* the code meets it later, and a lower-scoring candidate is there as well
C25_Witness ==
    /\ AfterNerCity
    /\ _regex_city(text) = None
    /\ \E k, j, i \in AcceptedSpans :
          /\ j < k
          /\ _score_ner_candidate(Reported[j]) = _score_ner_candidate(Reported[k])
          /\ Len(_clean_city(Reported[j].text)) < Len(_clean_city(Reported[k].text))
          /\ _score_ner_candidate(Reported[i]) < _score_ner_candidate(Reported[k])
          /\ Unbeaten(k)
          /\ result = _clean_city(Reported[k].text)


\* the first line of the text in hand on which a pipeline that does not raise
\* reports an accepted entity with this city
FirstLineOf(city) ==
    FirstOf({n \in 1..Len(text) :
                \E p \in 1..Len(WorkingPipes) :
                    /\ ~WorkingPipes[p].raises
                    /\ \E e \in Range(EntsOfLines[WorkingPipes[p].name][text[n]]) :
                           _score_ner_candidate(e) > 0 /\ _clean_city(e.text) = city})

\* C26 as stated: when multi-city mode falls through to the entities, the
\* list holds the city of every accepted entity exactly once, in the order
\* in which they stand in the section, however many taggers are loaded.
C26_AsStated ==
    (AfterCitiesList /\ result.calls = 1) =>
        /\ Range(result.cities) = AcceptedCities \ {<< >>}
        /\ \A i, j \in 1..Len(result.cities) : i < j => result.cities[i] # result.cities[j]
        /\ \A i, j \in 1..Len(result.cities) :
               i < j => FirstLineOf(result.cities[i]) <= FirstLineOf(result.cities[j])


\* the places of a string at which an annotation marker stands, whatever the
\* case of its letters
MarkerPlaces(s) ==
    {k \in 1..Len(s) : \E n \in 1..Len(split_tokens) : OccursAt(LowerStr(s), split_tokens[n], k)}

\* the string up to its first annotation marker
UpToMarker(s) ==
    IF MarkerPlaces(s) = {} THEN s ELSE SubSeq(s, 1, FirstOf(MarkerPlaces(s)) - 1)

\* C27 as stated: once the postal codes are removed, the Normalizer discards
\* the text from the first annotation marker onward, matching the marker
\* whatever its case, and only then truncates at a separator, collapses the
\* white space and re-cases.
C27_AsStated ==
    (op = "_clean_city" /\ text[1] # << >>) =>
        result = smart_title(NormalizeSpaces(CutAtSeparator(UpToMarker(
                     RemoveBareCodes(RemoveCountryCodes(text[1], 1), 1)))))


(***************************************************************************)
(* The window of gui.py: TransportGUI.  The main thread runs the handlers  *)
(* of the buttons and of the keyboard shortcuts, each of them atomically   *)
(* (a modal dialog included); every start_processing starts a thread that  *)
(* runs process_pdfs, which is interleaved with the handlers and with the  *)
(* other threads at the places where it reads the shared fields.           *)
(***************************************************************************)
MaxWorkers == 2

MaxFiles == 2

\* config.ENABLE_SHEETS_EXPORT
ENABLE_SHEETS_EXPORT == TRUE

extractor_vars == << text, use_spacy, spacy_available, installed, faulty,
                     _nlp_pipelines, loads, op, result, regex_seen >>

\* the folders the askdirectory dialog can return; "orders" holds PDF files
Folders == {"empty", "orders"}

\* what the dialog returns when it is cancelled
Cancelled == ""

\* the names ending in .pdf that os.listdir finds in the folder, sorted
list_pdf_files(folder) ==
    IF folder = "orders" THEN [f \in 1..MaxFiles |-> f] ELSE << >>

\* the text PDFReader.extract_text decodes from a file of "orders"
FileText(f) ==
    IF f % 2 = 1
    THEN << LoadingHeaders[2], << "1", "2", "-", "3", "4", "5", " ", "R", "o", "k" >>,
            UnloadingHeaders[2], << "b", "e", "r", "l", "i", "n" >> >>
    ELSE << << "F", "i", "r", "m", "a" >> >>

\* TransportGUI.__init__: CityExtractor(use_spacy=True), the flags, the buttons
\* of setup_ui, the folder load_last_folder returns
InitGui ==
    /\ text = << >>
    /\ spacy_available = TRUE
    /\ use_spacy = (TRUE /\ USE_SPACY_CITIES)
    /\ \E mc \in Machines :
          /\ mc.faulty = {}
          /\ installed = mc.installed
          /\ faulty = mc.faulty
    /\ _nlp_pipelines = NotLoaded
    /\ loads = NoLoads
    /\ op = "__init__"
    /\ result = << >>
    /\ regex_seen = << >>
    /\ GuiConstructed
    /\ current_folder \in {NoFolder} \cup Folders

\* a thread at the first line of process_pdfs.  stopped and begun are
\* history: whether stop_processing ran while the thread was running, and
\* what the thread has begun since
NewWorker ==
    [pc |-> "start", pdf_files |-> << >>, i |-> 1, failed |-> 0,
     stopped |-> FALSE, begun |-> {}, finished |-> "no"]

Running == {k \in 1..Len(workers) : workers[k].pc # "returned"}

scan_pdfs ==
    process_btn' =
        IF current_folder' = NoFolder THEN process_btn
        ELSE IF Len(list_pdf_files(current_folder')) = 0 THEN DISABLED
        ELSE NORMAL

\* the Browse button and Ctrl/Cmd+O: never disabled, never guarded
BrowseFolder ==
    /\ \E folder \in Folders \cup {Cancelled} :
          IF folder # Cancelled
          THEN /\ current_folder' = folder
               /\ scan_pdfs
          ELSE UNCHANGED << current_folder, process_btn >>
    /\ UNCHANGED << processing, stop_requested, export_to_sheets,
                    process_only_btn, stop_btn, workers >>
    /\ UNCHANGED extractor_vars

start_processing(export) ==
    /\ processing' = TRUE
    /\ stop_requested' = FALSE
    /\ export_to_sheets' = export
    /\ process_btn' = DISABLED
    /\ process_only_btn' = DISABLED
    /\ stop_btn' = NORMAL
    /\ workers' = Append(workers, NewWorker)
    /\ UNCHANGED current_folder

\* confirm_and_process (export "True") and confirm_and_process_only ("False"):
\* a warning when there is nothing to process, else the askyesno dialog
confirm_and_process(export) ==
    IF current_folder = NoFolder \/ Len(list_pdf_files(current_folder)) = 0
    THEN UNCHANGED gui_vars
    ELSE \E answer \in BOOLEAN :
            IF answer THEN start_processing(export) ELSE UNCHANGED gui_vars

\* a click on the process button, which tk delivers while the button is enabled
ClickProcess ==
    /\ process_btn = NORMAL
    /\ Len(workers) < MaxWorkers
    /\ confirm_and_process("True")
    /\ UNCHANGED extractor_vars

ClickProcessOnly ==
    /\ process_only_btn = NORMAL
    /\ Len(workers) < MaxWorkers
    /\ confirm_and_process("False")
    /\ UNCHANGED extractor_vars

\* Ctrl/Cmd+P: confirm_and_process() if not self.processing else None
ShortcutProcess ==
    /\ Len(workers) < MaxWorkers
    /\ IF ~processing THEN confirm_and_process("True") ELSE UNCHANGED gui_vars
    /\ UNCHANGED extractor_vars

stop_processing ==
    /\ stop_requested' = TRUE
    /\ stop_btn' = DISABLED
    /\ workers' = [k \in 1..Len(workers) |->
                      IF k \in Running THEN [workers[k] EXCEPT !.stopped = TRUE]
                      ELSE workers[k]]
    /\ UNCHANGED << processing, export_to_sheets, current_folder,
                    process_btn, process_only_btn >>

ClickStop ==
    /\ stop_btn = NORMAL
    /\ stop_processing
    /\ UNCHANGED extractor_vars

\* Escape: stop_processing() if self.processing else None
ShortcutStop ==
    /\ IF processing THEN stop_processing ELSE UNCHANGED gui_vars
    /\ UNCHANGED extractor_vars

\* thread k goes on as w
Continue(k, w) ==
    /\ workers' = [workers EXCEPT ![k] = w]
    /\ UNCHANGED << processing, stop_requested, export_to_sheets, current_folder,
                    process_btn, process_only_btn, stop_btn >>

\* thread k returns from process_pdfs without calling finish_processing
Return(k, w) == Continue(k, [w EXCEPT !.pc = "returned"])

\* thread k calls finish_processing(res) and returns
finish_processing(k, w, res) ==
    /\ processing' = FALSE
    /\ process_btn' = NORMAL
    /\ process_only_btn' = NORMAL
    /\ stop_btn' = DISABLED
    /\ workers' = [workers EXCEPT ![k] = [w EXCEPT !.pc = "returned", !.finished = res]]
    /\ UNCHANGED << stop_requested, export_to_sheets, current_folder >>

\* what thread k has begun, remembered once it was asked to stop
Begin(w, what) == IF w.stopped THEN [w EXCEPT !.begun = @ \cup {what}] ELSE w

\* lines 484-489: the listing of self.current_folder; os.listdir may raise
ListPdfFiles(k) ==
    /\ k <= Len(workers)
    /\ workers[k].pc = "start"
    /\ \E raised \in BOOLEAN :
          LET files == list_pdf_files(current_folder)
              w == workers[k]
          IN  IF raised THEN finish_processing(k, w, "None")
              ELSE IF Len(files) = 0 THEN Return(k, w)
              ELSE Continue(k, [w EXCEPT !.pc = "loop", !.pdf_files = files])
    /\ UNCHANGED extractor_vars

\* lines 498-503: the head of the loop
CheckStop(k) ==
    /\ k <= Len(workers)
    /\ workers[k].pc = "loop"
    /\ LET w == workers[k]
       IN  IF w.i > Len(w.pdf_files) \/ stop_requested
           THEN Continue(k, [w EXCEPT !.pc = "after_loop"])
           ELSE Continue(k, [Begin(w, "document") EXCEPT !.pc = "document"])
    /\ UNCHANGED extractor_vars

\* lines 505-536: one file.  The path is built on self.current_folder as it
\* is now; a file that is missing or unreadable raises in extract_text
ProcessDocument(k) ==
    /\ k <= Len(workers)
    /\ workers[k].pc = "document"
    /\ LET w == workers[k]
           f == w.pdf_files[w.i]
           next == [w EXCEPT !.pc = "loop", !.i = @ + 1]
       IN  \E readable \in BOOLEAN :
              IF readable /\ current_folder = "orders"
              THEN \E r \in {Hybrid(Self, FileText(f))} :
                      /\ text' = FileText(f)
                      /\ op' = "extract_from_text"
                      /\ result' = r
                      /\ Ensure(r.calls)
                      /\ UNCHANGED << use_spacy, spacy_available, installed, faulty, regex_seen >>
                      /\ Continue(k, next)
              ELSE /\ Continue(k, [next EXCEPT !.failed = @ + 1])
                   /\ UNCHANGED extractor_vars

\* lines 538-540
AfterLoop(k) ==
    /\ k <= Len(workers)
    /\ workers[k].pc = "after_loop"
    /\ LET w == workers[k]
       IN  IF stop_requested THEN finish_processing(k, w, "None")
           ELSE Continue(k, [w EXCEPT !.pc = "group"])
    /\ UNCHANGED extractor_vars

\* lines 542-587: grouping by plate and display
Group(k) ==
    /\ k <= Len(workers)
    /\ workers[k].pc = "group"
    /\ Continue(k, [Begin(workers[k], "grouping") EXCEPT !.pc = "export"])
    /\ UNCHANGED extractor_vars

\* lines 589-679.  gui.py reads ENABLE_SHEETS_EXPORT, whose import is commented
\* out: the name is either missing (NameError, caught at line 677) or bound
\* as config.py binds it.  The exporter is a collaborator that may fail.
Export(k) ==
    /\ k <= Len(workers)
    /\ workers[k].pc = "export"
    /\ LET w == workers[k]
       IN  \E bound \in BOOLEAN, exported \in BOOLEAN :
              IF ~bound THEN finish_processing(k, w, "None")
              ELSE IF ENABLE_SHEETS_EXPORT /\ export_to_sheets = "True"
              THEN finish_processing(k, Begin(w, "export"),
                                     IF exported THEN "result" ELSE "None")
              ELSE finish_processing(k, w, "result")
    /\ UNCHANGED extractor_vars

\* one step of thread k
process_pdfs(k) ==
    \/ ListPdfFiles(k)
    \/ CheckStop(k)
    \/ ProcessDocument(k)
    \/ AfterLoop(k)
    \/ Group(k)
    \/ Export(k)

NextGui ==
    \/ BrowseFolder
    \/ ClickProcess
    \/ ClickProcessOnly
    \/ ShortcutProcess
    \/ ClickStop
    \/ ShortcutStop
    \/ \E k \in 1..MaxWorkers : ListPdfFiles(k)
    \/ \E k \in 1..MaxWorkers : CheckStop(k)
    \/ \E k \in 1..MaxWorkers : ProcessDocument(k)
    \/ \E k \in 1..MaxWorkers : AfterLoop(k)
    \/ \E k \in 1..MaxWorkers : Group(k)
    \/ \E k \in 1..MaxWorkers : Export(k)

SpecGui == InitGui /\ [][NextGui]_vars

\* the threads are scheduled: a thread that can take a step takes it
FairSpecGui ==
    SpecGui /\ \A k \in 1..MaxWorkers : WF_vars(process_pdfs(k))

\* C28: at most one thread runs process_pdfs at any time: while a run is in
\* progress no sequence of clicks, shortcuts and folder selections starts a
\* second one
C28_AsStated == Cardinality(Running) <= 1

\* C29: every thread start_processing has started eventually calls
\* finish_processing, whatever path process_pdfs takes
C29_AsStated ==
    \A k \in 1..MaxWorkers :
        (Len(workers) >= k) ~> (Len(workers) >= k /\ workers[k].finished # "no")

\* C30: a thread that was running when stop_processing set stop_requested
\* begins no further document, no grouping and no export, and if it calls
\* finish_processing it is with None
C30_AsStated ==
    \A k \in 1..Len(workers) :
        workers[k].stopped =>
            /\ workers[k].begun = {}
            /\ workers[k].finished \in {"no", "None"}

=============================================================================
